---- MODULE Spec2Model ----
(***************************************************************************)
(* PeerPresent: the session coordination core of server/routes.ts          *)
(* (registerRoutes: the WebSocket handlers and the process-wide session    *)
(* and timer state) over the in-memory record store of server/storage.ts   *)
(* (MemStorage).                                                           *)
(*                                                                         *)
(* Every handler is an async function.  One action of this module is one   *)
(* run of a handler from the point where it was entered or resumed up to   *)
(* its next `await` (or its end).  A storage method is an async function   *)
(* whose body runs when it is called, so its effect belongs to the step    *)
(* that makes the call; the step that follows the await only sees the      *)
(* value it returned.  A suspended handler is a record in `tasks` holding  *)
(* its position (pc) and its local variables.                              *)
(***************************************************************************)
EXTENDS Integers, Sequences, FiniteSets, Bags, TLC

(***************************************************************************)
(* Bounds of the model (not constants of the program).                     *)
(***************************************************************************)
MaxConns == 2
MaxTasks == 2
MaxSessions == 2
MaxEvals == 2
MaxFeedback == 2
MaxSeconds == 2
MaxClock == 1
MaxPeers == 1
MaxTeams == 1

VARIABLES
    storage,         \* the MemStorage object: its six maps and six id counters
    clients,         \* Map<WebSocket, Client>, in insertion order
    activeSession,   \* routes.ts: let activeSession (a session object or Null)
    activeTeam,      \* routes.ts: let activeTeam (a team object or Null)
    timerSeconds,    \* routes.ts: let timerSeconds
    isTimerRunning,  \* routes.ts: let isTimerRunning
    timerInterval,   \* routes.ts: let timerInterval (an interval handle or Null)
    intervals,       \* the interval handles that are live in the runtime
    sockets,         \* per connection: readyState and whether its listeners are set
    tasks,           \* the suspended handlers (a bag of records)
    now,             \* the server clock, as read by new Date()
    out,             \* per connection: the messages handed to send() by the last step
    event            \* what the last step was: connection, message type, position

vars == <<storage, clients, activeSession, activeTeam, timerSeconds, isTimerRunning,
          timerInterval, intervals, sockets, tasks, now, out, event>>

serverVars == <<activeSession, activeTeam, timerSeconds, isTimerRunning,
                timerInterval, intervals>>

\* null / undefined
Null == [null |-> TRUE]

Conns == 1..MaxConns

(***************************************************************************)
(* MemStorage (server/storage.ts).  A Map is the set of its values, each   *)
(* carrying its key in the field id; iteration is in insertion order,      *)
(* which is the order of the ids since ids are handed out in increasing    *)
(* order and an update of an existing key keeps its place.                 *)
(***************************************************************************)
MapGet(map, id) ==
    IF \E r \in map : r.id = id THEN CHOOSE r \in map : r.id = id ELSE Null

MapSet(map, rec) == {r \in map : r.id # rec.id} \cup {rec}

\* Array.from(map.values()).find(pred): the first match in insertion order
FindFirst(matches) ==
    IF matches = {} THEN Null
    ELSE CHOOSE r \in matches : \A q \in matches : r.id <= q.id

MemStorage ==
    [ users |-> {[id |-> 1, username |-> "admin", isAdmin |-> TRUE]},
      teams |-> {},
      presentationSessions |-> {},
      evaluations |-> {},
      aiFeedback |-> {},
      peers |-> {},
      currentUserId |-> 2,
      currentTeamId |-> 1,
      currentSessionId |-> 1,
      currentEvaluationId |-> 1,
      currentFeedbackId |-> 1,
      currentPeerId |-> 1 ]

getUserById(st, id) == MapGet(st.users, id)

getTeam(st, id) == MapGet(st.teams, id)

getPeerByUSN(st, usn) == FindFirst({p \in st.peers : p.usn = usn})

getPeerByUserId(st, userId) == FindFirst({p \in st.peers : p.userId = userId})

getActivePresentationSession(st) ==
    FindFirst({s \in st.presentationSessions : s.isActive})

\* the record written by updatePresentationSession: { ...session, ...updates }
MergeSession(session, updates) ==
    [f \in DOMAIN session |-> IF f \in DOMAIN updates THEN updates[f] ELSE session[f]]

\* a variant that stores the updates as a new record when the id is unknown
UpsertPresentationSession(st, id, updates) ==
    LET session == MapGet(st.presentationSessions, id) IN
    IF session = Null
    THEN [threw |-> FALSE,
          store |-> [st EXCEPT !.presentationSessions = @ \cup {[id |-> id] @@ updates}],
          returned |-> [id |-> id] @@ updates]
    ELSE [threw |-> FALSE,
          store |-> [st EXCEPT !.presentationSessions =
                                   MapSet(@, MergeSession(session, updates))],
          returned |-> MergeSession(session, updates)]

\* one call of updatePresentationSession: whether it threw, the store it leaves
\* and the record it returned
updatePresentationSessionCall(st, id, updates) ==
    LET session == MapGet(st.presentationSessions, id) IN
    IF session = Null
    THEN [threw |-> TRUE, store |-> st, returned |-> Null]
    ELSE [threw |-> FALSE,
          store |-> [st EXCEPT !.presentationSessions =
                                   MapSet(@, MergeSession(session, updates))],
          returned |-> MergeSession(session, updates)]

\* the store after updatePresentationSession
updatePresentationSession(st, id, updates) ==
    updatePresentationSessionCall(st, id, updates).store

\* the tail of createPresentationSession: take the id, store the record
StoreNewSession(st, insertSession) ==
    LET session == [id |-> st.currentSessionId,
                    teamId |-> insertSession.teamId,
                    startTime |-> insertSession.startTime,
                    isActive |-> insertSession.isActive,
                    createdBy |-> insertSession.createdBy,
                    endTime |-> Null]
    IN [st EXCEPT !.currentSessionId = @ + 1,
                  !.presentationSessions = MapSet(@, session)]

\* getEvaluationsBySessionId without the filter: the evaluations of every session
getEvaluationsOfAllSessions(st, sessionId) == st.evaluations

getEvaluationsBySessionId(st, sessionId) ==
    {e \in st.evaluations : e.sessionId = sessionId}

getEvaluationBySessionAndPeer(st, sessionId, peerId) ==
    FindFirst({e \in st.evaluations : e.sessionId = sessionId /\ e.peerId = peerId})

createEvaluationKeepingId(st, insertEvaluation) ==
    [st EXCEPT !.evaluations = MapSet(@,
                   [id |-> st.currentEvaluationId,
                    sessionId |-> insertEvaluation.sessionId,
                    peerId |-> insertEvaluation.peerId,
                    technicalContent |-> insertEvaluation.technicalContent,
                    presentationSkills |-> insertEvaluation.presentationSkills,
                    projectDemo |-> insertEvaluation.projectDemo,
                    submittedAt |-> insertEvaluation.submittedAt])]

createEvaluation(st, insertEvaluation) ==
    [st EXCEPT !.currentEvaluationId = @ + 1,
               !.evaluations = MapSet(@,
                   [id |-> st.currentEvaluationId,
                    sessionId |-> insertEvaluation.sessionId,
                    peerId |-> insertEvaluation.peerId,
                    technicalContent |-> insertEvaluation.technicalContent,
                    presentationSkills |-> insertEvaluation.presentationSkills,
                    projectDemo |-> insertEvaluation.projectDemo,
                    submittedAt |-> insertEvaluation.submittedAt])]

createAIFeedback(st, insertFeedback) ==
    [st EXCEPT !.currentFeedbackId = @ + 1,
               !.aiFeedback = MapSet(@,
                   [id |-> st.currentFeedbackId,
                    sessionId |-> insertFeedback.sessionId,
                    strengths |-> insertFeedback.strengths,
                    improvements |-> insertFeedback.improvements,
                    overallScore |-> insertFeedback.overallScore,
                    generatedAt |-> insertFeedback.generatedAt])]

createUser(st, insertUser) ==
    [st EXCEPT !.currentUserId = @ + 1,
               !.users = MapSet(@, [id |-> st.currentUserId,
                                    username |-> insertUser.username,
                                    isAdmin |-> insertUser.isAdmin])]

createPeer(st, insertPeer) ==
    [st EXCEPT !.currentPeerId = @ + 1,
               !.peers = MapSet(@, [id |-> st.currentPeerId,
                                    usn |-> insertPeer.usn,
                                    userId |-> insertPeer.userId])]

createTeam(st, insertTeam) ==
    [st EXCEPT !.currentTeamId = @ + 1,
               !.teams = MapSet(@, [id |-> st.currentTeamId,
                                    createdBy |-> insertTeam.createdBy])]


(***************************************************************************)
(* Messages (the envelope {type, payload}) and sending.  `out` holds, per  *)
(* connection, the messages handed to that socket's send() by the last     *)
(* step, in order.  A broadcast loop sends only to sockets whose           *)
(* readyState is OPEN; a direct reply calls send() without that test.      *)
(***************************************************************************)
ErrorMsg(message) == [type |-> "error", message |-> message]

SessionUpdateMsg(session, team) ==
    [type |-> "session_update", session |-> session, team |-> team]

TimerUpdateMsg(seconds, running) ==
    [type |-> "timer_update", seconds |-> seconds, isRunning |-> running]

PeersUpdateMsg(peersList) == [type |-> "peers_update", peers |-> peersList]

FeedbackUpdateMsg(feedback) == [type |-> "feedback_update", feedback |-> feedback]

EvaluationUpdateMsg(evals, averages) ==
    [type |-> "evaluation_update", evaluations |-> evals, averages |-> averages]

SessionEndMsg == [type |-> "session_end"]

EvaluationSubmittedMsg == [type |-> "evaluation_submitted", success |-> TRUE]

NoOut == [c \in Conns |-> <<>>]

Send(o, ws, msgs) == [o EXCEPT ![ws] = @ \o msgs]

IsOpen(ws) == sockets[ws].readyState = "OPEN"

\* clients.get(ws)
ClientOf(ws) ==
    IF \E i \in 1..Len(clients) : clients[i].socket = ws
    THEN clients[CHOOSE i \in 1..Len(clients) : clients[i].socket = ws]
    ELSE Null

\* clients.set(ws, client) for a socket that has no entry yet
ClientsSet(client) == Append(clients, client)

\* clients.delete(ws)
ClientsDelete(ws) ==
    LET Keep(c) == c.socket # ws IN SelectSeq(clients, Keep)

Registered == {clients[i].socket : i \in 1..Len(clients)}

\* the sockets a clients.forEach loop with a readyState test sends to
OpenAll == {ws \in Registered : IsOpen(ws)}

OpenAdmins == {ws \in OpenAll : ClientOf(ws).isAdmin}

OpenNonAdmins == {ws \in OpenAll : ~ClientOf(ws).isAdmin}

Broadcast(o, targets, msgs) ==
    [ws \in Conns |-> IF ws \in targets THEN o[ws] \o msgs ELSE o[ws]]

AddTask(bag, t) == bag (+) SetToBag({t})

RemoveTask(bag, t) == bag (-) SetToBag({t})

Suspended == BagToSet(tasks)

CanSuspend == BagCardinality(tasks) < MaxTasks

Ev(ws, type, pc) == [conn |-> ws, type |-> type, pc |-> pc]

(***************************************************************************)
(* getPeersList: the connected, identity-resolved, non-admin clients in    *)
(* registry order, each looked up by getPeerByUserId.  The clients are     *)
(* filtered when the function is called; the lookups that follow read the  *)
(* peers map, which only grows and holds a user's peer record from the     *)
(* login that created the user, so the list is fixed at the call.          *)
(***************************************************************************)
getPeersList(cl, st) ==
    LET IsPeer(c) == ~c.isAdmin /\ c.userId > 0 /\ getPeerByUserId(st, c.userId) # Null
        nonAdmin == SelectSeq(cl, IsPeer)
    IN [i \in 1..Len(nonAdmin) |-> [id |-> getPeerByUserId(st, nonAdmin[i].userId).id]]

\* sendState up to its first await: what it sends to an OPEN socket
\* sendStateMsgs with the timer snapshot reset: seconds 0 whatever the counter is
sendStateMsgsTimerZero ==
    (IF activeSession # Null /\ activeTeam # Null
        THEN <<SessionUpdateMsg(activeSession, activeTeam)>> ELSE <<>>)
    \o <<TimerUpdateMsg(0, isTimerRunning)>>

sendStateMsgs ==
    (IF activeSession # Null /\ activeTeam # Null
        THEN <<SessionUpdateMsg(activeSession, activeTeam)>> ELSE <<>>)
    \o <<TimerUpdateMsg(timerSeconds, isTimerRunning)>>

(***************************************************************************)
(* Init: the state after `new MemStorage()` and registerRoutes(app).       *)
(***************************************************************************)
Init ==
    /\ storage = MemStorage
    /\ clients = <<>>
    /\ activeSession = Null
    /\ activeTeam = Null
    /\ timerSeconds = 0
    /\ isTimerRunning = FALSE
    /\ timerInterval = Null
    /\ intervals = {}
    /\ sockets = [c \in Conns |-> [readyState |-> "NONE", listening |-> FALSE]]
    /\ tasks = EmptyBag
    /\ now = 0
    /\ out = NoOut
    /\ event = Ev(0, "init", "entry")

(***************************************************************************)
(* The environment: the clock, and the REST routes that fill the store.    *)
(***************************************************************************)
ClockAdvance ==
    /\ now < MaxClock
    /\ now' = now + 1
    /\ out' = NoOut
    /\ event' = Ev(0, "clock", "entry")
    /\ UNCHANGED <<storage, clients, serverVars, sockets, tasks>>

UsnNames == <<"usn1", "usn2", "usn3", "usn4", "usn5", "usn6">>

USNs == {UsnNames[i] : i \in 1..MaxPeers}

\* POST /api/auth/peer-login: a new usn gets a user and a peer record
PeerLogin(usn) ==
    /\ storage' = IF getPeerByUSN(storage, usn) = Null
                  THEN createPeer(createUser(storage, [username |-> usn, isAdmin |-> FALSE]),
                                  [usn |-> usn, userId |-> storage.currentUserId])
                  ELSE storage
    /\ out' = NoOut
    /\ event' = Ev(0, "peer-login", "entry")
    /\ UNCHANGED <<clients, serverVars, sockets, tasks, now>>

\* POST /api/teams by the logged-in admin, with one team in the array
UploadTeam ==
    /\ storage.currentTeamId <= MaxTeams
    /\ storage' = createTeam(storage, [createdBy |-> 1])
    /\ out' = NoOut
    /\ event' = Ev(0, "teams", "entry")
    /\ UNCHANGED <<clients, serverVars, sockets, tasks, now>>

(***************************************************************************)
(* wss.on('connection').  The handshake carries sessionId, which the       *)
(* client sets to its user id; NoId stands for a URL without a query, or   *)
(* without sessionId, or with one that parseInt turns into NaN: the        *)
(* handler then reaches clients.set without an await.                      *)
(***************************************************************************)
NoId == 0

\* 1 is the admin user, then one user per peer login, and one id past them
Handshakes == {NoId} \cup (1..(MaxPeers + 2))

FreshSocket ==
    IF \E ws \in Conns : sockets[ws].readyState = "NONE"
    THEN CHOOSE ws \in Conns : /\ sockets[ws].readyState = "NONE"
                               /\ \A v \in Conns : sockets[v].readyState = "NONE" => ws <= v
    ELSE 0

Listen(sk, ws) == [sk EXCEPT ![ws].listening = TRUE]

Connect(sessionId) ==
    LET ws == FreshSocket IN
    /\ ws # 0
    /\ IF sessionId = NoId
       THEN \* userId = 0, isAdmin = false: set, sendState, listeners
            /\ clients' = ClientsSet([socket |-> ws, userId |-> 0, isAdmin |-> FALSE])
            /\ out' = Send(NoOut, ws, sendStateMsgs)
            /\ sockets' = [sockets EXCEPT ![ws] = [readyState |-> "OPEN", listening |-> TRUE]]
            /\ UNCHANGED tasks
       ELSE \* await storage.getUserById(sessionIdNum)
            /\ CanSuspend
            /\ tasks' = AddTask(tasks, [kind |-> "connection", conn |-> ws, pc |-> "getUserById",
                                        user |-> getUserById(storage, sessionId)])
            /\ sockets' = [sockets EXCEPT ![ws].readyState = "OPEN"]
            /\ out' = NoOut
            /\ UNCHANGED clients
    /\ event' = Ev(ws, "connection", "entry")
    /\ UNCHANGED <<storage, serverVars, now>>

\* after getUserById: clients.set, sendState(ws), and for a peer getPeersList
ConnectionResolved(t) ==
    LET ws == t.conn
        userId == IF t.user # Null THEN t.user.id ELSE 0
        isAdmin == IF t.user # Null THEN t.user.isAdmin ELSE FALSE
        cl == ClientsSet([socket |-> ws, userId |-> userId, isAdmin |-> isAdmin])
        sendsState == IsOpen(ws)
        statePeers == IF sendsState /\ isAdmin
                      THEN SetToBag({[kind |-> "sendState", conn |-> ws, pc |-> "getPeersList",
                                      peersList |-> getPeersList(cl, storage)]})
                      ELSE EmptyBag
        rest == RemoveTask(tasks, t) (+) statePeers
    IN
    /\ t.kind = "connection" /\ t.pc = "getUserById"
    /\ clients' = cl
    /\ out' = IF sendsState THEN Send(NoOut, ws, sendStateMsgs) ELSE NoOut
    /\ IF ~isAdmin /\ userId > 0
       THEN /\ tasks' = AddTask(rest, [kind |-> "connection", conn |-> ws, pc |-> "getPeersList",
                                       peersList |-> getPeersList(cl, storage)])
            /\ UNCHANGED sockets
       ELSE /\ tasks' = rest
            /\ sockets' = Listen(sockets, ws)
    /\ event' = Ev(ws, "connection", t.pc)
    /\ UNCHANGED <<storage, serverVars, now>>

\* after getPeersList in the connection handler: peers_update to the admins
ConnectionPeersListed(t) ==
    /\ t.kind = "connection" /\ t.pc = "getPeersList"
    /\ out' = Broadcast(NoOut, OpenAdmins, <<PeersUpdateMsg(t.peersList)>>)
    /\ sockets' = Listen(sockets, t.conn)
    /\ tasks' = RemoveTask(tasks, t)
    /\ event' = Ev(t.conn, "connection", t.pc)
    /\ UNCHANGED <<storage, clients, serverVars, now>>

\* sendState after its getPeersList: peers_update to the one client
SendStatePeersListed(t) ==
    /\ t.kind = "sendState" /\ t.pc = "getPeersList"
    /\ out' = Send(NoOut, t.conn, <<PeersUpdateMsg(t.peersList)>>)
    /\ tasks' = RemoveTask(tasks, t)
    /\ event' = Ev(t.conn, "sendState", t.pc)
    /\ UNCHANGED <<storage, clients, serverVars, sockets, now>>

(***************************************************************************)
(* The transport closes.  ws.on('close') runs only if the connection       *)
(* handler has reached the line that registers it.                         *)
(***************************************************************************)
CloseEndsSession(ws) ==
    LET client == ClientOf(ws)
        cl == ClientsDelete(ws)
    IN
    /\ IsOpen(ws)
    /\ sockets' = [sockets EXCEPT ![ws].readyState = "CLOSED"]
    /\ IF sockets[ws].listening
       THEN /\ clients' = cl
            /\ IF client # Null /\ ~client.isAdmin /\ client.userId > 0
               THEN /\ CanSuspend
                    /\ tasks' = AddTask(tasks, [kind |-> "close", conn |-> ws, pc |-> "getPeersList",
                                                peersList |-> getPeersList(cl, storage)])
               ELSE UNCHANGED tasks
       ELSE UNCHANGED <<clients, tasks>>
    /\ out' = NoOut
    /\ event' = Ev(ws, "close", "entry")
    /\ activeSession' = IF client # Null /\ client.isAdmin THEN Null ELSE activeSession
    /\ activeTeam' = IF client # Null /\ client.isAdmin THEN Null ELSE activeTeam
    /\ UNCHANGED <<storage, timerSeconds, isTimerRunning, timerInterval, intervals, now>>

Close(ws) ==
    LET client == ClientOf(ws)
        cl == ClientsDelete(ws)
    IN
    /\ IsOpen(ws)
    /\ sockets' = [sockets EXCEPT ![ws].readyState = "CLOSED"]
    /\ IF sockets[ws].listening
       THEN /\ clients' = cl
            /\ IF client # Null /\ ~client.isAdmin /\ client.userId > 0
               THEN /\ CanSuspend
                    /\ tasks' = AddTask(tasks, [kind |-> "close", conn |-> ws, pc |-> "getPeersList",
                                                peersList |-> getPeersList(cl, storage)])
               ELSE UNCHANGED tasks
       ELSE UNCHANGED <<clients, tasks>>
    /\ out' = NoOut
    /\ event' = Ev(ws, "close", "entry")
    /\ UNCHANGED <<storage, serverVars, now>>

ClosePeersListed(t) ==
    /\ t.kind = "close" /\ t.pc = "getPeersList"
    /\ out' = Broadcast(NoOut, OpenAdmins, <<PeersUpdateMsg(t.peersList)>>)
    /\ tasks' = RemoveTask(tasks, t)
    /\ event' = Ev(t.conn, "close", t.pc)
    /\ UNCHANGED <<storage, clients, serverVars, sockets, now>>

(***************************************************************************)
(* ws.on('message').  A message reaches the handler of an OPEN socket      *)
(* whose listeners are registered; the handler returns at once when the    *)
(* socket has no entry in clients.                                         *)
(***************************************************************************)
ReceivesAfterGenerator(ws) ==
    /\ IsOpen(ws) /\ sockets[ws].listening /\ ClientOf(ws) # Null
    /\ \A t \in BagToSet(tasks) : t.pc # "generateAIFeedback"

Receives(ws) == IsOpen(ws) /\ sockets[ws].listening /\ ClientOf(ws) # Null

\* case "get_state": sendState(ws), not awaited
GetState(ws) ==
    /\ Receives(ws)
    /\ out' = Send(NoOut, ws, sendStateMsgs)
    /\ IF ClientOf(ws).isAdmin
       THEN /\ CanSuspend
            /\ tasks' = AddTask(tasks, [kind |-> "sendState", conn |-> ws, pc |-> "getPeersList",
                                        peersList |-> getPeersList(clients, storage)])
       ELSE UNCHANGED tasks
    /\ event' = Ev(ws, "get_state", "entry")
    /\ UNCHANGED <<storage, clients, serverVars, sockets, now>>

(***************************************************************************)
(* case "start_presentation" with storage.createPresentationSession        *)
(* inlined: the handler is suspended on getTeam, then inside               *)
(* createPresentationSession on getActivePresentationSession and, when a   *)
(* session is active, on updatePresentationSession, and last on            *)
(* createPresentationSession itself.                                       *)
(***************************************************************************)
\* team ids a client may name: those of the store and one past them
TeamIds == 1..(MaxTeams + 1)

StartsInFlight ==
    BagCardinality([t \in {u \in Suspended : u.kind = "start_presentation"} |-> tasks[t]])

StartPresentationFirstTeam(ws, teamId) ==
    LET client == ClientOf(ws) IN
    /\ Receives(ws)
    /\ IF ~client.isAdmin
       THEN /\ out' = Send(NoOut, ws, <<ErrorMsg("Only admins can start presentations")>>)
            /\ UNCHANGED tasks
       ELSE /\ CanSuspend
            /\ storage.currentSessionId + StartsInFlight <= MaxSessions
            /\ tasks' = AddTask(tasks, [kind |-> "start_presentation", conn |-> ws,
                                        pc |-> "getTeam", client |-> client, teamId |-> teamId,
                                        team |-> getTeam(storage, 1)])
            /\ out' = NoOut
    /\ event' = Ev(ws, "start_presentation", "entry")
    /\ UNCHANGED <<storage, clients, serverVars, sockets, now>>

StartPresentation(ws, teamId) ==
    LET client == ClientOf(ws) IN
    /\ Receives(ws)
    /\ IF ~client.isAdmin
       THEN /\ out' = Send(NoOut, ws, <<ErrorMsg("Only admins can start presentations")>>)
            /\ UNCHANGED tasks
       ELSE /\ CanSuspend
            /\ storage.currentSessionId + StartsInFlight <= MaxSessions
            /\ tasks' = AddTask(tasks, [kind |-> "start_presentation", conn |-> ws,
                                        pc |-> "getTeam", client |-> client, teamId |-> teamId,
                                        team |-> getTeam(storage, teamId)])
            /\ out' = NoOut
    /\ event' = Ev(ws, "start_presentation", "entry")
    /\ UNCHANGED <<storage, clients, serverVars, sockets, now>>

\* StartTeamFetched without the test for a missing team
StartTeamFetchedNoTest(t) ==
    /\ t.kind = "start_presentation" /\ t.pc = "getTeam"
    /\ out' = NoOut
    /\ tasks' = AddTask(RemoveTask(tasks, t),
                        [kind |-> "start_presentation", conn |-> t.conn,
                         pc |-> "getActivePresentationSession", client |-> t.client,
                         team |-> t.team,
                         insertSession |-> [teamId |-> t.teamId, startTime |-> now,
                                            isActive |-> TRUE,
                                            createdBy |-> t.client.userId],
                         activeSession |-> getActivePresentationSession(storage)])
    /\ event' = Ev(t.conn, "start_presentation", t.pc)
    /\ UNCHANGED <<storage, clients, serverVars, sockets, now>>

StartTeamFetched(t) ==
    /\ t.kind = "start_presentation" /\ t.pc = "getTeam"
    /\ IF t.team = Null
       THEN /\ out' = Send(NoOut, t.conn, <<ErrorMsg("Team not found")>>)
            /\ tasks' = RemoveTask(tasks, t)
       ELSE /\ out' = NoOut
            /\ tasks' = AddTask(RemoveTask(tasks, t),
                                [kind |-> "start_presentation", conn |-> t.conn,
                                 pc |-> "getActivePresentationSession", client |-> t.client,
                                 team |-> t.team,
                                 insertSession |-> [teamId |-> t.teamId, startTime |-> now,
                                                    isActive |-> TRUE,
                                                    createdBy |-> t.client.userId],
                                 activeSession |-> getActivePresentationSession(storage)])
    /\ event' = Ev(t.conn, "start_presentation", t.pc)
    /\ UNCHANGED <<storage, clients, serverVars, sockets, now>>

\* the session object createPresentationSession returns
NewSessionOf(st) == MapGet(st.presentationSessions, st.currentSessionId - 1)

StartCreatedTask(t, st) ==
    [kind |-> "start_presentation", conn |-> t.conn, pc |-> "createPresentationSession",
     client |-> t.client, team |-> t.team, newSession |-> NewSessionOf(st)]

\* createPresentationSession after getActivePresentationSession
StartActiveFetched(t) ==
    /\ t.kind = "start_presentation" /\ t.pc = "getActivePresentationSession"
    /\ IF t.activeSession # Null
       THEN /\ storage' = updatePresentationSession(storage, t.activeSession.id,
                                                    [isActive |-> FALSE, endTime |-> now])
            /\ tasks' = AddTask(RemoveTask(tasks, t),
                                [t EXCEPT !.pc = "updatePresentationSession"])
       ELSE /\ storage' = StoreNewSession(storage, t.insertSession)
            /\ tasks' = AddTask(RemoveTask(tasks, t), StartCreatedTask(t, storage'))
    /\ out' = NoOut
    /\ event' = Ev(t.conn, "start_presentation", t.pc)
    /\ UNCHANGED <<clients, serverVars, sockets, now>>

\* createPresentationSession after it has ended the session it found active
StartPriorEnded(t) ==
    /\ t.kind = "start_presentation" /\ t.pc = "updatePresentationSession"
    /\ storage' = StoreNewSession(storage, t.insertSession)
    /\ tasks' = AddTask(RemoveTask(tasks, t), StartCreatedTask(t, storage'))
    /\ out' = NoOut
    /\ event' = Ev(t.conn, "start_presentation", t.pc)
    /\ UNCHANGED <<clients, serverVars, sockets, now>>

\* the handler after createPresentationSession: the in-memory state, the broadcast
\* StartCreated without the clearInterval of lines 406-409
StartCreatedKeepsInterval(t) ==
    /\ t.kind = "start_presentation" /\ t.pc = "createPresentationSession"
    /\ activeSession' = t.newSession
    /\ activeTeam' = t.team
    /\ timerSeconds' = 0
    /\ isTimerRunning' = FALSE
    /\ out' = Broadcast(NoOut, OpenAll,
                        <<SessionUpdateMsg(t.newSession, t.team), TimerUpdateMsg(0, FALSE)>>)
    /\ tasks' = RemoveTask(tasks, t)
    /\ event' = Ev(t.conn, "start_presentation", t.pc)
    /\ UNCHANGED <<storage, clients, sockets, now, timerInterval, intervals>>

StartCreated(t) ==
    /\ t.kind = "start_presentation" /\ t.pc = "createPresentationSession"
    /\ activeSession' = t.newSession
    /\ activeTeam' = t.team
    /\ timerSeconds' = 0
    /\ isTimerRunning' = FALSE
    /\ timerInterval' = Null
    /\ intervals' = IF timerInterval # Null THEN intervals \ {timerInterval} ELSE intervals
    /\ out' = Broadcast(NoOut, OpenAll,
                        <<SessionUpdateMsg(t.newSession, t.team), TimerUpdateMsg(0, FALSE)>>)
    /\ tasks' = RemoveTask(tasks, t)
    /\ event' = Ev(t.conn, "start_presentation", t.pc)
    /\ UNCHANGED <<storage, clients, sockets, now>>

(***************************************************************************)
(* Numbers.  A JavaScript number is an IEEE 754 double.  Every number the  *)
(* averages go through is 0 or lies in [1, 128): a sum of ratings divided  *)
(* by their count, a mean of such means, or ten times one.  Such a double  *)
(* is a whole number of units of 2^-52 below 2^59, kept as three limbs of  *)
(* 20 bits <<high, middle, low>>; its last place is worth 2^e units when   *)
(* it lies in [2^e, 2^(e+1)).  Sums of ratings are integers far below      *)
(* 2^53 and therefore exact.                                               *)
(***************************************************************************)
Limb == 1048576

\* the integer 1 in the high limb: 2^52 = 4096 * Limb * Limb
One == 4096

FInt(k) == <<k * One, 0, 0>>

\* 0 / 0
NaN == <<-1, -1, -1>>

Carry(h, m, l) ==
    LET m1 == m + (l \div Limb) IN <<h + (m1 \div Limb), m1 % Limb, l % Limb>>

RECURSIVE Log2(_)
Log2(k) == IF k <= 1 THEN 0 ELSE 1 + Log2(k \div 2)

\* the units in the last place of a double with these limbs
Ulp(x) == 2 ^ Log2(x[1] \div One)

\* round to nearest, ties to even: the exact value x + num / den units, with
\* 0 <= num < den, to a whole number of last places
RoundNearest(x, num, den) ==
    LET u == Ulp(x)
        low == x[3] % u
        twice == 2 * (low * den + num)
        down == <<x[1], x[2], x[3] - low>>
        up == Carry(x[1], x[2], x[3] - low + u)
    IN IF twice < u * den THEN down
       ELSE IF twice > u * den THEN up
       ELSE IF (x[3] \div u) % 2 = 0 THEN down ELSE up

\* x + y
FAdd(x, y) == RoundNearest(Carry(x[1] + y[1], x[2] + y[2], x[3] + y[3]), 0, 1)

\* x * k for a small integer k
FTimes(x, k) == RoundNearest(Carry(x[1] * k, x[2] * k, x[3] * k), 0, 1)

\* x / d for a small integer d > 0: long division over the limbs, then rounding
FDiv(x, d) ==
    LET n2 == (x[1] % d) * Limb + x[2]
        n3 == (n2 % d) * Limb + x[3]
    IN RoundNearest(<<x[1] \div d, n2 \div d, n3 \div d>>, n3 % d, d)

\* Math.round: the nearest integer, a fraction of one half rounding up
MathRound(x) ==
    IF x[1] % One >= One \div 2 THEN (x[1] \div One) + 1 ELSE x[1] \div One

(***************************************************************************)
(* generateAIFeedback (server/ai.ts).  The averages and the prompt are     *)
(* computed before the generator is called; reading team.name of a null    *)
(* team raises inside the try block, which then returns the fallback.      *)
(***************************************************************************)
RECURSIVE SumField(_, _)
SumField(evals, f) ==
    IF evals = {} THEN 0
    ELSE LET e == CHOOSE x \in evals : TRUE
         IN e[f] + SumField(evals \ {e}, f)

\* the array of evaluations the store returns: in insertion order, that of the ids
RECURSIVE InOrder(_)
InOrder(evals) ==
    IF evals = {} THEN <<>>
    ELSE LET e == CHOOSE x \in evals : \A y \in evals : x.id <= y.id
         IN <<e>> \o InOrder(evals \ {e})

\* reduce(...) / evaluations.length for one rating
Mean(evals, f) ==
    IF evals = {} THEN NaN ELSE FDiv(FInt(SumField(evals, f)), Cardinality(evals))

\* (avgTechnicalContent + avgPresentationSkills + avgProjectDemo) / 3
MeanOfMeans(evals) ==
    IF evals = {} THEN NaN
    ELSE FDiv(FAdd(FAdd(Mean(evals, "technicalContent"), Mean(evals, "presentationSkills")),
                   Mean(evals, "projectDemo")), 3)

\* Math.round((avgTechnicalContent + avgPresentationSkills + avgProjectDemo) / 3 * 10)
avgOverall(evals) == MathRound(FTimes(MeanOfMeans(evals), 10))

\* the reduce of the catch block: sum + (technicalContent + presentationSkills +
\* projectDemo) / 3 over the array, from 0
RECURSIVE SumOfOwnMeans(_)
SumOfOwnMeans(arr) ==
    IF arr = <<>> THEN FInt(0)
    ELSE LET e == arr[Len(arr)] IN
         FAdd(SumOfOwnMeans(SubSeq(arr, 1, Len(arr) - 1)),
              FDiv(FInt(e.technicalContent + e.presentationSkills + e.projectDemo), 3))

\* the catch block: Math.round(reduce(...) / evaluations.length * 10)
fallbackScore(evals) ==
    MathRound(FTimes(FDiv(SumOfOwnMeans(InOrder(evals)), Cardinality(evals)), 10))

\* the two fixed three-item lists of the catch block
FallbackStrengths == [by |-> "fallback", what |-> "strengths"]

FallbackImprovements == [by |-> "fallback", what |-> "improvements"]

\* what the generator answers depends on the prompt, that is on these evaluations
Generated(what, evals) == [by |-> "generator", what |-> what, from |-> {e.id : e \in evals}]

\* what the external generator call comes to: a JSON object with the two lists, a
\* JSON object without them, or an error (network, timeout, content that is not JSON)
Responses == {"lists", "no lists", "error"}

generateAIFeedback(evals, team, response) ==
    IF team = Null \/ response = "error"
    THEN [strengths |-> FallbackStrengths,
          improvements |-> FallbackImprovements,
          overallScore |-> fallbackScore(evals)]
    ELSE IF response = "lists"
    THEN [strengths |-> Generated("strengths", evals),
          improvements |-> Generated("improvements", evals),
          overallScore |-> avgOverall(evals)]
    ELSE [strengths |-> Null,
          improvements |-> Null,
          overallScore |-> avgOverall(evals)]

(***************************************************************************)
(* case "end_presentation".  Reading activeSession.id when activeSession   *)
(* is null raises a TypeError: inside the feedback try block it is caught  *)
(* and logged there, anywhere else it ends the handler in the catch of     *)
(* ws.on('message'), which logs and sends nothing.                         *)
(***************************************************************************)
\* EndPresentation without the test for an active session: reading
\* activeSession.id then raises, and the handler ends without a reply
EndPresentationNoIdleTest(ws) ==
    LET client == ClientOf(ws) IN
    /\ Receives(ws)
    /\ IF ~client.isAdmin
       THEN /\ out' = Send(NoOut, ws, <<ErrorMsg("Only admins can end presentations")>>)
            /\ UNCHANGED tasks
       ELSE IF activeSession = Null
       THEN /\ out' = NoOut
            /\ UNCHANGED tasks
       ELSE /\ CanSuspend
            /\ tasks' = AddTask(tasks, [kind |-> "end_presentation", conn |-> ws,
                                        pc |-> "getEvaluationsBySessionId",
                                        evaluations |->
                                            getEvaluationsBySessionId(storage, activeSession.id)])
            /\ out' = NoOut
    /\ event' = Ev(ws, "end_presentation", "entry")
    /\ UNCHANGED <<storage, clients, serverVars, sockets, now>>

EndPresentation(ws) ==
    LET client == ClientOf(ws) IN
    /\ Receives(ws)
    /\ IF ~client.isAdmin
       THEN /\ out' = Send(NoOut, ws, <<ErrorMsg("Only admins can end presentations")>>)
            /\ UNCHANGED tasks
       ELSE IF activeSession = Null
       THEN /\ out' = Send(NoOut, ws, <<ErrorMsg("No active presentation to end")>>)
            /\ UNCHANGED tasks
       ELSE /\ CanSuspend
            /\ tasks' = AddTask(tasks, [kind |-> "end_presentation", conn |-> ws,
                                        pc |-> "getEvaluationsBySessionId",
                                        evaluations |->
                                            getEvaluationsBySessionId(storage, activeSession.id)])
            /\ out' = NoOut
    /\ event' = Ev(ws, "end_presentation", "entry")
    /\ UNCHANGED <<storage, clients, serverVars, sockets, now>>

\* lines 480-484: await storage.updatePresentationSession(activeSession.id, ...)
EndUpdateSession(t) ==
    IF activeSession = Null
    THEN /\ tasks' = RemoveTask(tasks, t)
         /\ UNCHANGED storage
    ELSE /\ storage' = updatePresentationSession(storage, activeSession.id,
                                                 [endTime |-> now, isActive |-> FALSE])
         /\ tasks' = AddTask(RemoveTask(tasks, t),
                             [kind |-> "end_presentation", conn |-> t.conn,
                              pc |-> "updatePresentationSession"])

EndEvaluationsFetched(t) ==
    /\ t.kind = "end_presentation" /\ t.pc = "getEvaluationsBySessionId"
    /\ IF t.evaluations # {}
       THEN /\ tasks' = AddTask(RemoveTask(tasks, t),
                                [kind |-> "end_presentation", conn |-> t.conn,
                                 pc |-> "generateAIFeedback",
                                 evaluations |-> t.evaluations, team |-> activeTeam])
            /\ UNCHANGED storage
       ELSE EndUpdateSession(t)
    /\ out' = NoOut
    /\ event' = Ev(t.conn, "end_presentation", t.pc)
    /\ UNCHANGED <<clients, serverVars, sockets, now>>

\* generateAIFeedback has returned (the generator answered, or failed)
EndFeedbackGenerated(t, response) ==
    LET feedback == generateAIFeedback(t.evaluations, t.team, response) IN
    /\ t.kind = "end_presentation" /\ t.pc = "generateAIFeedback"
    /\ IF activeSession = Null
       THEN \* createAIFeedback's argument raises, and so does line 481
            /\ tasks' = RemoveTask(tasks, t)
            /\ UNCHANGED storage
       ELSE /\ storage.currentFeedbackId <= MaxFeedback
            /\ storage' = createAIFeedback(storage,
                              [sessionId |-> activeSession.id,
                               strengths |-> feedback.strengths,
                               improvements |-> feedback.improvements,
                               overallScore |-> feedback.overallScore,
                               generatedAt |-> now])
            /\ tasks' = AddTask(RemoveTask(tasks, t),
                                [kind |-> "end_presentation", conn |-> t.conn,
                                 pc |-> "createAIFeedback", feedback |-> feedback])
    /\ out' = NoOut
    /\ event' = Ev(t.conn, "end_presentation", t.pc)
    /\ UNCHANGED <<clients, serverVars, sockets, now>>

\* after createAIFeedback: feedback_update to all, then the session update
EndFeedbackStored(t) ==
    /\ t.kind = "end_presentation" /\ t.pc = "createAIFeedback"
    /\ out' = Broadcast(NoOut, OpenAll, <<FeedbackUpdateMsg(t.feedback)>>)
    /\ EndUpdateSession(t)
    /\ event' = Ev(t.conn, "end_presentation", t.pc)
    /\ UNCHANGED <<clients, serverVars, sockets, now>>

\* after updatePresentationSession: stop the timer, go idle, broadcast
EndSessionUpdatedTimerOn(t) ==
    /\ t.kind = "end_presentation" /\ t.pc = "updatePresentationSession"
    /\ activeSession' = Null
    /\ activeTeam' = Null
    /\ out' = Broadcast(NoOut, OpenAll, <<SessionEndMsg, TimerUpdateMsg(0, FALSE)>>)
    /\ tasks' = RemoveTask(tasks, t)
    /\ event' = Ev(t.conn, "end_presentation", t.pc)
    /\ UNCHANGED <<storage, clients, timerSeconds, isTimerRunning, timerInterval, intervals,
                   sockets, now>>

EndSessionUpdated(t) ==
    /\ t.kind = "end_presentation" /\ t.pc = "updatePresentationSession"
    /\ timerInterval' = Null
    /\ intervals' = IF timerInterval # Null THEN intervals \ {timerInterval} ELSE intervals
    /\ isTimerRunning' = FALSE
    /\ activeSession' = Null
    /\ activeTeam' = Null
    /\ out' = Broadcast(NoOut, OpenAll, <<SessionEndMsg, TimerUpdateMsg(0, FALSE)>>)
    /\ tasks' = RemoveTask(tasks, t)
    /\ event' = Ev(t.conn, "end_presentation", t.pc)
    /\ UNCHANGED <<storage, clients, timerSeconds, sockets, now>>

(***************************************************************************)
(* case "submit_evaluation".                                               *)
(***************************************************************************)
\* the rating triples a client sends
Payloads ==
    { [technicalContent |-> 8, presentationSkills |-> 7, projectDemo |-> 9],
      [technicalContent |-> 6, presentationSkills |-> 8, projectDemo |-> 7] }

\* the averages of the update: each rating's mean, and the mean of the three
Averages(evals) ==
    [technicalContent |-> Mean(evals, "technicalContent"),
     presentationSkills |-> Mean(evals, "presentationSkills"),
     projectDemo |-> Mean(evals, "projectDemo"),
     overall |-> MeanOfMeans(evals)]

\* SubmitEvaluation with the admin test ahead of the active-session test
SubmitEvaluationAdminFirst(ws, payload) ==
    LET client == ClientOf(ws) IN
    /\ Receives(ws)
    /\ IF client.isAdmin
       THEN /\ out' = Send(NoOut, ws, <<ErrorMsg("Admins cannot submit evaluations")>>)
            /\ UNCHANGED tasks
       ELSE IF activeSession = Null
       THEN /\ out' = Send(NoOut, ws, <<ErrorMsg("No active presentation to evaluate")>>)
            /\ UNCHANGED tasks
       ELSE /\ CanSuspend
            /\ tasks' = AddTask(tasks, [kind |-> "submit_evaluation", conn |-> ws,
                                        pc |-> "getEvaluationBySessionAndPeer",
                                        client |-> client, payload |-> payload,
                                        existingEvaluation |->
                                            getEvaluationBySessionAndPeer(
                                                storage, activeSession.id, client.userId)])
            /\ out' = NoOut
    /\ event' = Ev(ws, "submit_evaluation", "entry")
    /\ UNCHANGED <<storage, clients, serverVars, sockets, now>>

SubmitEvaluation(ws, payload) ==
    LET client == ClientOf(ws) IN
    /\ Receives(ws)
    /\ IF activeSession = Null
       THEN /\ out' = Send(NoOut, ws, <<ErrorMsg("No active presentation to evaluate")>>)
            /\ UNCHANGED tasks
       ELSE IF client.isAdmin
       THEN /\ out' = Send(NoOut, ws, <<ErrorMsg("Admins cannot submit evaluations")>>)
            /\ UNCHANGED tasks
       ELSE /\ CanSuspend
            /\ tasks' = AddTask(tasks, [kind |-> "submit_evaluation", conn |-> ws,
                                        pc |-> "getEvaluationBySessionAndPeer",
                                        client |-> client, payload |-> payload,
                                        existingEvaluation |->
                                            getEvaluationBySessionAndPeer(
                                                storage, activeSession.id, client.userId)])
            /\ out' = NoOut
    /\ event' = Ev(ws, "submit_evaluation", "entry")
    /\ UNCHANGED <<storage, clients, serverVars, sockets, now>>

\* { ...data.payload, peerId, sessionId, submittedAt }: the payload's fields with
\* the server's three written over them
EvaluationDataPayloadLast(payload, client) ==
    [f \in DOMAIN payload \cup {"peerId", "sessionId", "submittedAt"} |->
        IF f \in DOMAIN payload THEN payload[f]
        ELSE IF f = "peerId" THEN client.userId
        ELSE IF f = "sessionId" THEN activeSession.id
        ELSE now]

EvaluationData(payload, client) ==
    [f \in DOMAIN payload \cup {"peerId", "sessionId", "submittedAt"} |->
        IF f = "peerId" THEN client.userId
        ELSE IF f = "sessionId" THEN activeSession.id
        ELSE IF f = "submittedAt" THEN now
        ELSE payload[f]]

\* insertEvaluationSchema.parse succeeds: the three ratings are there and are
\* integers; the schema puts no bounds on them
insertEvaluationSchema(data) ==
    \A f \in {"technicalContent", "presentationSkills", "projectDemo"} :
        f \in DOMAIN data /\ data[f] \in Int

\* after the existence check: reject, or build, validate and store the record;
\* a ZodError ends the handler in the catch of ws.on('message')
SubmitChecked(t) ==
    /\ t.kind = "submit_evaluation" /\ t.pc = "getEvaluationBySessionAndPeer"
    /\ IF t.existingEvaluation # Null
       THEN /\ out' = Send(NoOut, t.conn, <<ErrorMsg(
                          "You have already submitted an evaluation for this presentation")>>)
            /\ tasks' = RemoveTask(tasks, t)
            /\ UNCHANGED storage
       ELSE IF activeSession = Null
       THEN /\ out' = NoOut
            /\ tasks' = RemoveTask(tasks, t)
            /\ UNCHANGED storage
       ELSE IF ~insertEvaluationSchema(EvaluationData(t.payload, t.client))
       THEN /\ out' = NoOut
            /\ tasks' = RemoveTask(tasks, t)
            /\ UNCHANGED storage
       ELSE /\ storage.currentEvaluationId <= MaxEvals
            /\ storage' = createEvaluation(storage, EvaluationData(t.payload, t.client))
            /\ tasks' = AddTask(RemoveTask(tasks, t),
                                [kind |-> "submit_evaluation", conn |-> t.conn,
                                 pc |-> "createEvaluation"])
            /\ out' = NoOut
    /\ event' = Ev(t.conn, "submit_evaluation", t.pc)
    /\ UNCHANGED <<clients, serverVars, sockets, now>>

\* after createEvaluation: fetch the session's evaluations
SubmitCreated(t) ==
    /\ t.kind = "submit_evaluation" /\ t.pc = "createEvaluation"
    /\ IF activeSession = Null
       THEN tasks' = RemoveTask(tasks, t)
       ELSE tasks' = AddTask(RemoveTask(tasks, t),
                             [kind |-> "submit_evaluation", conn |-> t.conn,
                              pc |-> "getEvaluationsBySessionId",
                              sessionEvaluations |->
                                  getEvaluationsBySessionId(storage, activeSession.id)])
    /\ out' = NoOut
    /\ event' = Ev(t.conn, "submit_evaluation", t.pc)
    /\ UNCHANGED <<storage, clients, serverVars, sockets, now>>

\* after getEvaluationsBySessionId: the averages, the update to admins, the ack
\* SubmitListed with the evaluation update sent to every open connection
SubmitListedToAll(t) ==
    /\ t.kind = "submit_evaluation" /\ t.pc = "getEvaluationsBySessionId"
    /\ out' = Send(Broadcast(NoOut, OpenAll,
                             <<EvaluationUpdateMsg(t.sessionEvaluations,
                                                   Averages(t.sessionEvaluations))>>),
                   t.conn, <<EvaluationSubmittedMsg>>)
    /\ tasks' = RemoveTask(tasks, t)
    /\ event' = Ev(t.conn, "submit_evaluation", t.pc)
    /\ UNCHANGED <<storage, clients, serverVars, sockets, now>>

SubmitListed(t) ==
    /\ t.kind = "submit_evaluation" /\ t.pc = "getEvaluationsBySessionId"
    /\ out' = Send(Broadcast(NoOut, OpenAdmins,
                             <<EvaluationUpdateMsg(t.sessionEvaluations,
                                                   Averages(t.sessionEvaluations))>>),
                   t.conn, <<EvaluationSubmittedMsg>>)
    /\ tasks' = RemoveTask(tasks, t)
    /\ event' = Ev(t.conn, "submit_evaluation", t.pc)
    /\ UNCHANGED <<storage, clients, serverVars, sockets, now>>

(***************************************************************************)
(* The timer: case "timer_start" / "timer_pause" / "timer_reset" and the   *)
(* setInterval callback.                                                   *)
(***************************************************************************)
TimerError == ErrorMsg("Only admins can control the timer")

\* setInterval returns a Timeout object that no live interval has
NewInterval ==
    [timeout |-> CHOOSE h \in 1..(Cardinality(intervals) + 1) : [timeout |-> h] \notin intervals]

ClearInterval == IF timerInterval # Null THEN intervals \ {timerInterval} ELSE intervals

\* TimerStart without the test for an existing interval: every accepted
\* timer_start calls setInterval
TimerStartAlwaysNew(ws) ==
    /\ Receives(ws)
    /\ IF ~ClientOf(ws).isAdmin
       THEN /\ out' = Send(NoOut, ws, <<TimerError>>)
            /\ UNCHANGED serverVars
       ELSE IF activeSession = Null
       THEN /\ out' = Send(NoOut, ws, <<ErrorMsg("No active presentation")>>)
            /\ UNCHANGED serverVars
       ELSE /\ isTimerRunning' = TRUE
            /\ timerInterval' = NewInterval
            /\ intervals' = intervals \cup {NewInterval}
            /\ out' = Broadcast(NoOut, OpenAll, <<TimerUpdateMsg(timerSeconds, TRUE)>>)
            /\ UNCHANGED <<activeSession, activeTeam, timerSeconds>>
    /\ event' = Ev(ws, "timer_start", "entry")
    /\ UNCHANGED <<storage, clients, sockets, tasks, now>>

TimerStart(ws) ==
    /\ Receives(ws)
    /\ IF ~ClientOf(ws).isAdmin
       THEN /\ out' = Send(NoOut, ws, <<TimerError>>)
            /\ UNCHANGED serverVars
       ELSE IF activeSession = Null
       THEN /\ out' = Send(NoOut, ws, <<ErrorMsg("No active presentation")>>)
            /\ UNCHANGED serverVars
       ELSE /\ isTimerRunning' = TRUE
            /\ IF timerInterval = Null
               THEN /\ timerInterval' = NewInterval
                    /\ intervals' = intervals \cup {NewInterval}
               ELSE UNCHANGED <<timerInterval, intervals>>
            /\ out' = Broadcast(NoOut, OpenAll, <<TimerUpdateMsg(timerSeconds, TRUE)>>)
            /\ UNCHANGED <<activeSession, activeTeam, timerSeconds>>
    /\ event' = Ev(ws, "timer_start", "entry")
    /\ UNCHANGED <<storage, clients, sockets, tasks, now>>

\* the setInterval callback of a live interval
Tick(h) ==
    /\ h \in intervals
    /\ timerSeconds < MaxSeconds
    /\ timerSeconds' = timerSeconds + 1
    /\ out' = Broadcast(NoOut, OpenAll, <<TimerUpdateMsg(timerSeconds + 1, isTimerRunning)>>)
    /\ event' = Ev(0, "tick", "entry")
    /\ UNCHANGED <<storage, clients, activeSession, activeTeam, isTimerRunning,
                   timerInterval, intervals, sockets, tasks, now>>

\* TimerPause that only clears the running flag and leaves the interval alive
TimerPauseFlagOnly(ws) ==
    /\ Receives(ws)
    /\ IF ~ClientOf(ws).isAdmin
       THEN /\ out' = Send(NoOut, ws, <<TimerError>>)
            /\ UNCHANGED serverVars
       ELSE /\ isTimerRunning' = FALSE
            /\ out' = Broadcast(NoOut, OpenAll, <<TimerUpdateMsg(timerSeconds, FALSE)>>)
            /\ UNCHANGED <<activeSession, activeTeam, timerSeconds, timerInterval, intervals>>
    /\ event' = Ev(ws, "timer_pause", "entry")
    /\ UNCHANGED <<storage, clients, sockets, tasks, now>>

TimerPause(ws) ==
    /\ Receives(ws)
    /\ IF ~ClientOf(ws).isAdmin
       THEN /\ out' = Send(NoOut, ws, <<TimerError>>)
            /\ UNCHANGED serverVars
       ELSE /\ isTimerRunning' = FALSE
            /\ timerInterval' = Null
            /\ intervals' = ClearInterval
            /\ out' = Broadcast(NoOut, OpenAll, <<TimerUpdateMsg(timerSeconds, FALSE)>>)
            /\ UNCHANGED <<activeSession, activeTeam, timerSeconds>>
    /\ event' = Ev(ws, "timer_pause", "entry")
    /\ UNCHANGED <<storage, clients, sockets, tasks, now>>

\* TimerReset without the isAdmin test
TimerResetUngated(ws) ==
    /\ Receives(ws)
    /\ timerSeconds' = 0
    /\ isTimerRunning' = FALSE
    /\ timerInterval' = Null
    /\ intervals' = ClearInterval
    /\ out' = Broadcast(NoOut, OpenAll, <<TimerUpdateMsg(0, FALSE)>>)
    /\ event' = Ev(ws, "timer_reset", "entry")
    /\ UNCHANGED <<activeSession, activeTeam, storage, clients, sockets, tasks, now>>

TimerReset(ws) ==
    /\ Receives(ws)
    /\ IF ~ClientOf(ws).isAdmin
       THEN /\ out' = Send(NoOut, ws, <<TimerError>>)
            /\ UNCHANGED serverVars
       ELSE /\ timerSeconds' = 0
            /\ isTimerRunning' = FALSE
            /\ timerInterval' = Null
            /\ intervals' = ClearInterval
            /\ out' = Broadcast(NoOut, OpenAll, <<TimerUpdateMsg(0, FALSE)>>)
            /\ UNCHANGED <<activeSession, activeTeam>>
    /\ event' = Ev(ws, "timer_reset", "entry")
    /\ UNCHANGED <<storage, clients, sockets, tasks, now>>

(***************************************************************************)
(* case "screen_share_start" / "screen_share_stop".                        *)
(***************************************************************************)
ScreenShareToAll(ws, type, refusal) ==
    /\ Receives(ws)
    /\ IF ~ClientOf(ws).isAdmin
       THEN out' = Send(NoOut, ws, <<ErrorMsg(refusal)>>)
       ELSE out' = Broadcast(NoOut, OpenAll, <<[type |-> type]>>)
    /\ event' = Ev(ws, type, "entry")
    /\ UNCHANGED <<storage, clients, serverVars, sockets, tasks, now>>

ScreenShare(ws, type, refusal) ==
    /\ Receives(ws)
    /\ IF ~ClientOf(ws).isAdmin
       THEN out' = Send(NoOut, ws, <<ErrorMsg(refusal)>>)
       ELSE out' = Broadcast(NoOut, OpenNonAdmins, <<[type |-> type]>>)
    /\ event' = Ev(ws, type, "entry")
    /\ UNCHANGED <<storage, clients, serverVars, sockets, tasks, now>>

ScreenShareStart(ws) == ScreenShare(ws, "screen_share_start", "Only admins can share screen")

ScreenShareStop(ws) == ScreenShare(ws, "screen_share_stop", "Only admins can stop screen share")

(***************************************************************************)
(* Messages the switch does not get to, or has no case for.  JSON.parse    *)
(* of a text that is not JSON, and the destructuring of a payload that is  *)
(* not there, raise inside the try block; the catch logs and sends         *)
(* nothing.  A message of a type without a case (the signalling types      *)
(* offer, answer and ice_candidate the client sends among them) leaves     *)
(* the switch at once: there is no default case.                           *)
(***************************************************************************)
Unparsable(ws) ==
    /\ Receives(ws)
    /\ out' = NoOut
    /\ event' = Ev(ws, "message", "JSON.parse")
    /\ UNCHANGED <<storage, clients, serverVars, sockets, tasks, now>>

\* {"type": "start_presentation"} without a payload
StartPresentationNoPayload(ws) ==
    /\ Receives(ws)
    /\ IF ~ClientOf(ws).isAdmin
       THEN out' = Send(NoOut, ws, <<ErrorMsg("Only admins can start presentations")>>)
       ELSE out' = NoOut
    /\ event' = Ev(ws, "start_presentation", "payload")
    /\ UNCHANGED <<storage, clients, serverVars, sockets, tasks, now>>

SignalTypes == {"offer", "answer", "ice_candidate"}

Signal(ws, type) ==
    /\ Receives(ws)
    /\ out' = NoOut
    /\ event' = Ev(ws, type, "entry")
    /\ UNCHANGED <<storage, clients, serverVars, sockets, tasks, now>>

\* The client's handleSessionUpdate: a session_update delivered to a connection
\* makes its client call resetTimer(), and the client of an admin then sends
\* timer_reset, which the server handles
ClientSessionUpdate(ws) ==
    /\ \E i \in 1..Len(out[ws]) : out[ws][i].type = "session_update"
    /\ ClientOf(ws) # Null /\ ClientOf(ws).isAdmin
    /\ TimerReset(ws)

(***************************************************************************)
(* The next-state relation.                                                *)
(***************************************************************************)
Next ==
    \/ ClockAdvance
    \/ \E usn \in USNs : PeerLogin(usn)
    \/ UploadTeam
    \/ \E sessionId \in Handshakes : Connect(sessionId)
    \/ \E t \in Suspended : ConnectionResolved(t)
    \/ \E t \in Suspended : ConnectionPeersListed(t)
    \/ \E t \in Suspended : SendStatePeersListed(t)
    \/ \E ws \in Conns : Close(ws)
    \/ \E t \in Suspended : ClosePeersListed(t)
    \/ \E ws \in Conns : GetState(ws)
    \/ \E ws \in Conns, teamId \in TeamIds : StartPresentation(ws, teamId)
    \/ \E t \in Suspended : StartTeamFetched(t)
    \/ \E t \in Suspended : StartActiveFetched(t)
    \/ \E t \in Suspended : StartPriorEnded(t)
    \/ \E t \in Suspended : StartCreated(t)
    \/ \E ws \in Conns : EndPresentation(ws)
    \/ \E t \in Suspended : EndEvaluationsFetched(t)
    \/ \E t \in Suspended, response \in Responses : EndFeedbackGenerated(t, response)
    \/ \E t \in Suspended : EndFeedbackStored(t)
    \/ \E t \in Suspended : EndSessionUpdated(t)
    \/ \E ws \in Conns, payload \in Payloads : SubmitEvaluation(ws, payload)
    \/ \E t \in Suspended : SubmitChecked(t)
    \/ \E t \in Suspended : SubmitCreated(t)
    \/ \E t \in Suspended : SubmitListed(t)
    \/ \E ws \in Conns : TimerStart(ws)
    \/ \E h \in intervals : Tick(h)
    \/ \E ws \in Conns : TimerPause(ws)
    \/ \E ws \in Conns : TimerReset(ws)
    \/ \E ws \in Conns : ScreenShareStart(ws)
    \/ \E ws \in Conns : ScreenShareStop(ws)
    \/ \E ws \in Conns : Unparsable(ws)
    \/ \E ws \in Conns : StartPresentationNoPayload(ws)
    \/ \E ws \in Conns, type \in SignalTypes : Signal(ws, type)
    \/ \E ws \in Conns : ClientSessionUpdate(ws)

Spec == Init /\ [][Next]_vars

(***************************************************************************)
(* Specifications over part of the commands.  Spec interleaves every       *)
(* handler with every other from the first connection on; the ones below   *)
(* start from a state Spec reaches (a team uploaded, one peer logged in,   *)
(* the admin on socket 1 and that peer on socket 2, both accepted) and     *)
(* interleave the handlers of one group of commands in every order.        *)
(***************************************************************************)
InitConnected ==
    /\ storage = createTeam(
                    createPeer(createUser(MemStorage, [username |-> "usn1", isAdmin |-> FALSE]),
                               [usn |-> "usn1", userId |-> 2]),
                    [createdBy |-> 1])
    /\ clients = <<[socket |-> 1, userId |-> 1, isAdmin |-> TRUE],
                   [socket |-> 2, userId |-> 2, isAdmin |-> FALSE]>>
    /\ activeSession = Null
    /\ activeTeam = Null
    /\ timerSeconds = 0
    /\ isTimerRunning = FALSE
    /\ timerInterval = Null
    /\ intervals = {}
    /\ sockets = [c \in Conns |-> IF c <= 2 THEN [readyState |-> "OPEN", listening |-> TRUE]
                                           ELSE [readyState |-> "NONE", listening |-> FALSE]]
    /\ tasks = EmptyBag
    /\ now = 0
    /\ out = NoOut
    /\ event = Ev(0, "init", "entry")

StartSteps ==
    \/ \E ws \in Conns, teamId \in TeamIds : StartPresentation(ws, teamId)
    \/ \E t \in Suspended : StartTeamFetched(t)
    \/ \E t \in Suspended : StartActiveFetched(t)
    \/ \E t \in Suspended : StartPriorEnded(t)
    \/ \E t \in Suspended : StartCreated(t)

EndSteps ==
    \/ \E ws \in Conns : EndPresentation(ws)
    \/ \E t \in Suspended : EndEvaluationsFetched(t)
    \/ \E t \in Suspended : EndSessionUpdated(t)

FeedbackSteps ==
    \/ \E t \in Suspended, response \in Responses : EndFeedbackGenerated(t, response)
    \/ \E t \in Suspended : EndFeedbackStored(t)

SubmitSteps ==
    \/ \E ws \in Conns, payload \in Payloads : SubmitEvaluation(ws, payload)
    \/ \E t \in Suspended : SubmitChecked(t)
    \/ \E t \in Suspended : SubmitCreated(t)
    \/ \E t \in Suspended : SubmitListed(t)

TimerSteps ==
    \/ \E ws \in Conns : TimerStart(ws)
    \/ \E h \in intervals : Tick(h)
    \/ \E ws \in Conns : TimerPause(ws)
    \/ \E ws \in Conns : TimerReset(ws)

\* sessions, evaluations and feedback
NextSession == StartSteps \/ EndSteps \/ FeedbackSteps \/ SubmitSteps

SpecSession == InitConnected /\ [][NextSession]_vars

\* sessions, the timer, state snapshots and the screen share commands
NextTimer ==
    \/ ClockAdvance
    \/ StartSteps
    \/ EndSteps
    \/ TimerSteps
    \/ \E ws \in Conns : GetState(ws)
    \/ \E t \in Suspended : SendStatePeersListed(t)
    \/ \E ws \in Conns : ScreenShareStart(ws)
    \/ \E ws \in Conns : ScreenShareStop(ws)

SpecTimer == InitConnected /\ [][NextTimer]_vars

\* connections from the first one on, with sessions and submissions
NextAccept ==
    \/ \E usn \in USNs : PeerLogin(usn)
    \/ UploadTeam
    \/ \E sessionId \in Handshakes : Connect(sessionId)
    \/ \E t \in Suspended : ConnectionResolved(t)
    \/ \E t \in Suspended : ConnectionPeersListed(t)
    \/ \E t \in Suspended : SendStatePeersListed(t)
    \/ StartSteps
    \/ SubmitSteps

SpecAccept == Init /\ [][NextAccept]_vars

(***************************************************************************)
(* Properties.                                                             *)
(***************************************************************************)
ActiveStored == {s \in storage.presentationSessions : s.isActive}

\* the last step was the end of a start_presentation handler that created a session
StartCompleted == event.type = "start_presentation" /\ event.pc = "createPresentationSession"

\* the task a step resumed: the one of which `tasks` holds a copy less afterwards
Resumed(t) ==
    /\ t.conn = event'.conn /\ t.kind = event'.type /\ t.pc = event'.pc
    /\ CopiesIn(t, tasks') < CopiesIn(t, tasks)

\* C1: in every state of the record store at most one PresentationSession has
\* isActive = true, and when a start_presentation handler has completed the
\* active session is the most recently created one.
C1_OneActiveSession ==
    /\ Cardinality(ActiveStored) <= 1
    /\ StartCompleted =>
          \A s \in storage.presentationSessions :
              s.isActive <=> s.id = storage.currentSessionId - 1

\* C2: the record store holds at most one Evaluation for each (sessionId, peerId).
C2_OneEvaluationPerPeer ==
    \A e1, e2 \in storage.evaluations :
        (e1.sessionId = e2.sessionId /\ e1.peerId = e2.peerId) => e1 = e2

\* C3: the record store holds at most one AIFeedback record per sessionId.
C3_OneFeedbackPerSession ==
    \A f1, f2 \in storage.aiFeedback : f1.sessionId = f2.sessionId => f1 = f2

\* C4: an AIFeedback record is stored under the id of its originating session, the
\* session whose evaluations the end_presentation handler fetched and gave to the
\* generator, whatever happens while the generator call is pending.
C4_FeedbackOfOriginatingSession ==
    [][\A f \in storage'.aiFeedback \ storage.aiFeedback :
          \A t \in Suspended :
              (Resumed(t) /\ t.kind = "end_presentation" /\ t.pc = "generateAIFeedback")
                  => \A e \in t.evaluations : e.sessionId = f.sessionId]_vars

AdminOnlyCommands ==
    {"start_presentation", "end_presentation", "timer_start", "timer_pause", "timer_reset",
     "screen_share_start", "screen_share_stop"}

\* the last step handled, from its entry, a message of this type received on ws
Entered(ws, type) == event' = Ev(ws, type, "entry") /\ Receives(ws)

\* one error message to ws, nothing to anyone else, no record stored, no handler left
Rejected(ws, message) ==
    /\ out' = Send(NoOut, ws, <<ErrorMsg(message)>>)
    /\ storage' = storage
    /\ tasks' = tasks

\* C5: an admin-only command from a connection that is not tagged isAdmin gets one
\* error message, sent to that connection alone, and changes neither the session,
\* the timer (counter, running flag, tick handle) nor the record store.
C5_RoleGating ==
    [][\A ws \in Conns :
          (event'.type \in AdminOnlyCommands /\ Entered(ws, event'.type)
               /\ ~ClientOf(ws).isAdmin)
          => /\ Len(out'[ws]) = 1 /\ out'[ws][1].type = "error"
             /\ \A other \in Conns \ {ws} : out'[other] = <<>>
             /\ UNCHANGED <<serverVars, storage, tasks, clients>>]_vars

C5_Witness ==
    /\ event = Ev(2, "timer_reset", "entry")
    /\ out[2] = <<TimerError>>
    /\ isTimerRunning /\ timerSeconds > 0 /\ activeSession # Null

\* C6: a connection tagged anonymous (userId = 0) never causes an Evaluation to be
\* stored; a stored evaluation carries the userId of the connection that sent it.
C6_AnonymousStoresNothing == \A e \in storage.evaluations : e.peerId # 0

\* C7: submit_evaluation is rejected with one error to the caller alone and nothing
\* stored when no session is active (also for an admin caller: that rejection comes
\* first), when the caller is an admin, and when an evaluation for (current session,
\* caller) exists: the existence check then finds it and the handler ends with the
\* error.
C7_SubmitRejections ==
    [][/\ \A ws \in Conns :
             Entered(ws, "submit_evaluation") =>
                 LET client == ClientOf(ws) IN
                 /\ activeSession = Null
                        => Rejected(ws, "No active presentation to evaluate")
                 /\ (activeSession # Null /\ client.isAdmin)
                        => Rejected(ws, "Admins cannot submit evaluations")
                 /\ (/\ activeSession # Null /\ ~client.isAdmin
                     /\ \E e \in storage.evaluations :
                           e.sessionId = activeSession.id /\ e.peerId = client.userId)
                        => /\ out' = NoOut /\ storage' = storage
                           /\ \A t \in BagToSet(tasks') :
                                 CopiesIn(t, tasks') > CopiesIn(t, tasks)
                                     => t.existingEvaluation # Null
       /\ \A t \in Suspended :
             (/\ Resumed(t) /\ t.kind = "submit_evaluation"
              /\ t.pc = "getEvaluationBySessionAndPeer" /\ t.existingEvaluation # Null)
             => /\ out' = Send(NoOut, t.conn, <<ErrorMsg(
                      "You have already submitted an evaluation for this presentation")>>)
                /\ storage' = storage
                /\ tasks' = RemoveTask(tasks, t)]_vars

C7_Witness ==
    /\ event = Ev(2, "submit_evaluation", "getEvaluationBySessionAndPeer")
    /\ out[2] = <<ErrorMsg("You have already submitted an evaluation for this presentation")>>
    /\ out[1] = <<>>
    /\ activeSession # Null
    /\ Cardinality(storage.evaluations) = 1

\* C8: end_presentation from an admin while no session is active gets the error
\* reply alone: no session, timer or storage change, no handler left to generate
\* feedback, no session_end or timer_update to anyone.
C8_EndWhileIdle ==
    [][\A ws \in Conns :
          (Entered(ws, "end_presentation") /\ ClientOf(ws).isAdmin /\ activeSession = Null)
          => /\ Rejected(ws, "No active presentation to end")
             /\ UNCHANGED serverVars]_vars

C8_Witness ==
    /\ event = Ev(1, "end_presentation", "entry")
    /\ out = Send(NoOut, 1, <<ErrorMsg("No active presentation to end")>>)
    /\ activeSession = Null
    /\ storage.presentationSessions # {}
    /\ timerSeconds > 0

\* C9: start_presentation from an admin naming a team that is not in the store
\* changes nothing and ends with "Team not found" sent to the caller alone: no
\* session created, the active session as it was in memory and in the store, the
\* timer as it was.
C9_StartUnknownTeam ==
    [][/\ \A ws \in Conns :
             (Entered(ws, "start_presentation") /\ ClientOf(ws).isAdmin)
             => /\ out' = NoOut
                /\ UNCHANGED <<serverVars, storage>>
                /\ \A t \in BagToSet(tasks') :
                      CopiesIn(t, tasks') > CopiesIn(t, tasks)
                          => (t.team = Null <=> \A tm \in storage.teams : tm.id # t.teamId)
       /\ \A t \in Suspended :
             (/\ Resumed(t) /\ t.kind = "start_presentation"
              /\ t.pc = "getTeam" /\ t.team = Null)
             => /\ out' = Send(NoOut, t.conn, <<ErrorMsg("Team not found")>>)
                /\ tasks' = RemoveTask(tasks, t)
                /\ UNCHANGED <<serverVars, storage>>]_vars

C9_Witness ==
    /\ event = Ev(1, "start_presentation", "getTeam")
    /\ out = Send(NoOut, 1, <<ErrorMsg("Team not found")>>)
    /\ activeSession # Null
    /\ MapGet(storage.presentationSessions, activeSession.id).isActive
    /\ MapGet(storage.presentationSessions, activeSession.id).endTime = Null
    /\ isTimerRunning /\ timerSeconds > 0
    /\ Cardinality(storage.presentationSessions) = 1

\* the last step was the end of an end_presentation handler
EndCompleted == event.type = "end_presentation" /\ event.pc = "updatePresentationSession"

\* C10: when an accepted end_presentation has completed the state is Idle, no tick
\* stream is left, the running flag is false and the timer counter is 0 (what a
\* later state snapshot sends as timer_update).
C10_IdleAndZeroAfterEnd ==
    EndCompleted =>
        /\ activeSession = Null /\ activeTeam = Null
        /\ intervals = {} /\ timerInterval = Null /\ ~isTimerRunning
        /\ timerSeconds = 0
        /\ sendStateMsgs = <<TimerUpdateMsg(0, FALSE)>>

\* C11: the end transition does not wait for the feedback generator: while an
\* end_presentation handler is suspended on the generator call, the session whose
\* evaluations it handed to the generator is already stored inactive (so
\* feedback_update, sent once the generator has answered, never comes before that
\* session's session_end).
C11_EndDoesNotWaitForGenerator ==
    \A t \in Suspended :
        (t.kind = "end_presentation" /\ t.pc = "generateAIFeedback")
            => \A e \in t.evaluations :
                   ~MapGet(storage.presentationSessions, e.sessionId).isActive

\* C12: when createPresentationSession has closed the session it found active and
\* stores the new one, the superseded session is stored inactive with an endTime
\* less than or equal to the startTime stored for the new session, however the
\* clock moved between the handler's reading of startTime and the closing.
C12_SupersededEndsBeforeNewStarts ==
    [][\A t \in Suspended :
          (Resumed(t) /\ t.kind = "start_presentation" /\ t.pc = "updatePresentationSession")
          => LET prior == MapGet(storage'.presentationSessions, t.activeSession.id)
                 new == NewSessionOf(storage')
             IN ~prior.isActive /\ prior.endTime <= new.startTime]_vars

\* C13: at most one tick stream exists in every state: the live intervals are
\* exactly the one whose handle the server holds, and there is one just when the
\* running flag is set; a timer_start received while the timer is running keeps
\* that stream and creates no other, so the counter increases by the one live
\* stream's tick alone.
C13_OneTickStream ==
    /\ [](/\ Cardinality(intervals) <= 1
          /\ intervals = (IF timerInterval = Null THEN {} ELSE {timerInterval})
          /\ isTimerRunning <=> timerInterval # Null)
    /\ [][\A ws \in Conns :
             (Entered(ws, "timer_start") /\ isTimerRunning)
                 => UNCHANGED <<intervals, timerInterval, timerSeconds>>]_vars

C13_Witness ==
    /\ event = Ev(1, "timer_start", "entry")
    /\ out[2] = <<TimerUpdateMsg(1, TRUE)>>
    /\ isTimerRunning /\ timerSeconds = 1
    /\ intervals = {timerInterval}
    /\ storage.currentSessionId = 3

\* what a timer command leaves behind: no tick stream, the flag down, the given
\* counter, and that counter sent as timer_update{seconds, false} to every open
\* registered connection and to nobody else
TimerStopped(seconds) ==
    /\ intervals' = {} /\ timerInterval' = Null
    /\ ~isTimerRunning'
    /\ timerSeconds' = seconds
    /\ \A c \in Conns :
          out'[c] = IF c \in OpenAll THEN <<TimerUpdateMsg(seconds, FALSE)>> ELSE <<>>
    /\ UNCHANGED <<activeSession, activeTeam, storage, tasks>>

\* C14: timer_pause from an admin cancels the tick stream, clears the running flag
\* and keeps the counter; timer_reset from an admin does the same and sets the
\* counter to 0; each broadcasts the resulting timer_update; and the counter grows
\* only while the running flag is set, so not after either command until a
\* timer_start is accepted.
C14_PauseAndReset ==
    [][/\ \A ws \in Conns :
             /\ (Entered(ws, "timer_pause") /\ ClientOf(ws).isAdmin)
                    => TimerStopped(timerSeconds)
             /\ (Entered(ws, "timer_reset") /\ ClientOf(ws).isAdmin)
                    => TimerStopped(0)
       /\ timerSeconds' > timerSeconds => isTimerRunning /\ intervals # {}]_vars

C14_Witness ==
    /\ event = Ev(1, "timer_pause", "entry")
    /\ out = Broadcast(NoOut, {1, 2}, <<TimerUpdateMsg(2, FALSE)>>)
    /\ timerSeconds = 2 /\ ~isTimerRunning /\ intervals = {}
    /\ activeSession # Null

\* C15: when an accepted start_presentation completes, the state is Active with the
\* session this handler created (for the team it named, active, not ended) and the
\* team it looked up, the counter is 0, the running flag is down, no tick stream is
\* left, and every open registered connection has been sent session_update{session,
\* team} followed by timer_update{0, false}, and nobody else anything.
C15_AcceptedStart ==
    [][\A t \in Suspended :
          (Resumed(t) /\ t.kind = "start_presentation" /\ t.pc = "createPresentationSession")
          => /\ activeSession' = t.newSession
             /\ activeSession'.teamId = t.team.id
             /\ activeSession'.isActive /\ activeSession'.endTime = Null
             /\ activeSession'.id \in {s.id : s \in storage.presentationSessions}
             /\ activeTeam' = t.team /\ activeTeam' = getTeam(storage, t.team.id)
             /\ timerSeconds' = 0 /\ ~isTimerRunning'
             /\ timerInterval' = Null /\ intervals' = {}
             /\ \A c \in Conns :
                   out'[c] = IF c \in OpenAll
                             THEN <<SessionUpdateMsg(activeSession', activeTeam'),
                                    TimerUpdateMsg(0, FALSE)>>
                             ELSE <<>>]_vars

\* a second session started over a first one that the store has closed
C15_Witness ==
    /\ event = Ev(1, "start_presentation", "createPresentationSession")
    /\ activeSession # Null /\ activeSession.id = 2 /\ activeTeam # Null
    /\ ~MapGet(storage.presentationSessions, 1).isActive
    /\ out = Broadcast(NoOut, {1, 2},
                       <<SessionUpdateMsg(activeSession, activeTeam), TimerUpdateMsg(0, FALSE)>>)
    /\ timerSeconds = 0 /\ intervals = {}

(***************************************************************************)
(* Connections coming and going around a session: from a state Spec        *)
(* reaches (a team uploaded, one peer logged in, the admin accepted on     *)
(* socket 1 and its state snapshot delivered), connections are accepted    *)
(* and closed while a session is started and the timer runs.  The server   *)
(* keeps nothing of a connection once its close handler has run, so a      *)
(* client that reconnects is a new socket for a user it has seen before.   *)
(***************************************************************************)
InitAdminConnected ==
    /\ storage = createTeam(
                    createPeer(createUser(MemStorage, [username |-> "usn1", isAdmin |-> FALSE]),
                               [usn |-> "usn1", userId |-> 2]),
                    [createdBy |-> 1])
    /\ clients = <<[socket |-> 1, userId |-> 1, isAdmin |-> TRUE]>>
    /\ activeSession = Null
    /\ activeTeam = Null
    /\ timerSeconds = 0
    /\ isTimerRunning = FALSE
    /\ timerInterval = Null
    /\ intervals = {}
    /\ sockets = [c \in Conns |-> IF c = 1 THEN [readyState |-> "OPEN", listening |-> TRUE]
                                           ELSE [readyState |-> "NONE", listening |-> FALSE]]
    /\ tasks = EmptyBag
    /\ now = 0
    /\ out = NoOut
    /\ event = Ev(0, "init", "entry")

ConnectionSteps ==
    \/ \E sessionId \in Handshakes : Connect(sessionId)
    \/ \E t \in Suspended : ConnectionResolved(t)
    \/ \E t \in Suspended : ConnectionPeersListed(t)
    \/ \E ws \in Conns : Close(ws)
    \/ \E t \in Suspended : ClosePeersListed(t)

NextConnections ==
    \/ ConnectionSteps
    \/ \E ws \in Conns : GetState(ws)
    \/ \E t \in Suspended : SendStatePeersListed(t)
    \/ StartSteps
    \/ \E ws \in Conns : TimerStart(ws)
    \/ \E h \in intervals : Tick(h)

SpecConnections == InitAdminConnected /\ [][NextConnections]_vars

\* the state snapshot: the session and team if a session is active, then the timer
Snapshot ==
    (IF activeSession # Null THEN <<SessionUpdateMsg(activeSession, activeTeam)>> ELSE <<>>)
    \o <<TimerUpdateMsg(timerSeconds, isTimerRunning)>>

\* the handlers a step has left suspended that were not suspended before it
Started == {t \in BagToSet(tasks') : CopiesIn(t, tasks') > CopiesIn(t, tasks)}

\* ws is sent the snapshot and nobody else anything; the peers list follows, from a
\* sendState left pending on getPeersList, exactly when ws is an admin connection
SnapshotSent(ws, isAdmin) ==
    /\ out' = Send(NoOut, ws, Snapshot)
    /\ UNCHANGED <<serverVars, storage>>
    /\ isAdmin <=> \E t \in Started : t.kind = "sendState" /\ t.conn = ws

\* C16: a connection that is registered while its socket is open, and a connection
\* that sends get_state, is sent the snapshot alone: session_update just when a
\* session is active, timer_update with the counter and running flag as they are,
\* and peers_update, once the peers are listed, just when it is an admin connection;
\* no server state changes.  A socket opened for a user after that user's earlier
\* socket closed is treated the same way.
C16_Snapshot ==
    [][/\ \A ws \in Conns :
             /\ Entered(ws, "get_state") =>
                    /\ SnapshotSent(ws, ClientOf(ws).isAdmin)
                    /\ clients' = clients
             /\ (event'.type = "connection" /\ event'.conn = ws /\ clients' # clients
                     /\ sockets'[ws].readyState = "OPEN") =>
                    /\ clients' = Append(clients, clients'[Len(clients')])
                    /\ clients'[Len(clients')].socket = ws
                    /\ SnapshotSent(ws, clients'[Len(clients')].isAdmin)
       /\ \A t \in Suspended :
             (Resumed(t) /\ t.kind = "sendState")
             => /\ out' = Send(NoOut, t.conn, <<PeersUpdateMsg(t.peersList)>>)
                /\ UNCHANGED <<serverVars, storage, clients>>]_vars

\* the admin's socket 1 has closed; the admin is registered again on socket 2 while
\* the session is active and the timer has ticked
C16_Witness ==
    /\ event = Ev(2, "connection", "getUserById")
    /\ sockets[1].readyState = "CLOSED"
    /\ ClientOf(2) # Null /\ ClientOf(2).isAdmin
    /\ activeSession # Null
    /\ timerSeconds > 0 /\ isTimerRunning
    /\ out = Send(NoOut, 2, <<SessionUpdateMsg(activeSession, activeTeam),
                             TimerUpdateMsg(timerSeconds, TRUE)>>)

\* the peers a list computed over the registry cl has to name: one entry for each
\* registered connection that is non-admin and identity-resolved, in registry order
PeerEntries(cl) ==
    LET IsResolvedPeer(c) == ~c.isAdmin /\ c.userId > 0 IN
    SelectSeq(cl, IsResolvedPeer)

PeersUpdateTo(c) == \E i \in 1..Len(out'[c]) : out'[c][i].type = "peers_update"

\* the lists and the recipients of peers_update, apart from the disconnect rule
C17_ListsAndRecipients ==
    /\ \A c \in Conns :
          (PeersUpdateTo(c) /\ sockets'[c].readyState = "OPEN")
              => \E i \in 1..Len(clients') : clients'[i].socket = c /\ clients'[i].isAdmin
    /\ \A t \in Started :
          t.pc = "getPeersList"
              => /\ Len(t.peersList) = Len(PeerEntries(clients'))
                 /\ \A i \in 1..Len(t.peersList) :
                       t.peersList[i].id =
                           getPeerByUserId(storage, PeerEntries(clients')[i].userId).id
    /\ \A t \in Suspended :
          (Resumed(t) /\ t.kind \in {"connection", "close"} /\ t.pc = "getPeersList")
              => out' = Broadcast(NoOut, OpenAdmins, <<PeersUpdateMsg(t.peersList)>>)
    /\ \A ws \in Conns :
          (event' = Ev(ws, "connection", "getUserById") /\ clients' # clients
               /\ ~clients'[Len(clients')].isAdmin /\ clients'[Len(clients')].userId > 0)
              => \E t \in Started : t.kind = "connection" /\ t.conn = ws

\* C17: peers_update goes to admin connections only; every list names exactly the
\* connections that are registered, non-admin and identity-resolved when it is
\* computed (so no anonymous, admin or removed connection); and each connect and
\* each disconnect of an identity-resolved non-admin connection starts a
\* recomputation whose list is sent to every open admin connection.
C17_PeersUpdate ==
    [][/\ C17_ListsAndRecipients
       /\ \A ws \in Conns :
             (/\ event' = Ev(ws, "close", "entry")
              /\ ClientOf(ws) # Null /\ ~ClientOf(ws).isAdmin /\ ClientOf(ws).userId > 0)
                 => \E t \in Started : t.kind = "close" /\ t.conn = ws]_vars

\* C18: a submit_evaluation handler that has stored its evaluation fetches the full
\* list of the evaluations stored for the current session, and when it completes
\* sends evaluation_update with that list and its averages to every open admin
\* connection and to no non-admin connection, and evaluation_submitted{success:
\* true} to the submitting connection and to no other; nothing else is sent and no
\* state changes.
C18_SubmitRecipients ==
    [][/\ \A t \in Started :
             (t.kind = "submit_evaluation" /\ t.pc = "getEvaluationsBySessionId")
             => t.sessionEvaluations =
                    {e \in storage.evaluations : e.sessionId = activeSession.id}
       /\ \A t \in Suspended :
             (Resumed(t) /\ t.kind = "submit_evaluation"
                  /\ t.pc = "getEvaluationsBySessionId")
             => /\ \A c \in Conns :
                      out'[c] =
                          (IF c \in Registered /\ IsOpen(c) /\ ClientOf(c).isAdmin
                           THEN <<EvaluationUpdateMsg(t.sessionEvaluations,
                                                      Averages(t.sessionEvaluations))>>
                           ELSE <<>>)
                          \o (IF c = t.conn THEN <<EvaluationSubmittedMsg>> ELSE <<>>)
                /\ ~ClientOf(t.conn).isAdmin
                /\ UNCHANGED <<storage, serverVars, clients>>]_vars

\* the peer on socket 2 is acknowledged, the admin on socket 1 gets the update
C18_Witness ==
    /\ event = Ev(2, "submit_evaluation", "getEvaluationsBySessionId")
    /\ out[2] = <<EvaluationSubmittedMsg>>
    /\ Len(out[1]) = 1 /\ out[1][1].type = "evaluation_update"
    /\ out[1][1].evaluations = storage.evaluations
    /\ Cardinality(storage.evaluations) = 1

(***************************************************************************)
(* The averages and the feedback score as functions of the evaluations.    *)
(* The inputs are drawn in the initial state: session 1 has been           *)
(* superseded by session 2, which is active; up to MaxRated peers have     *)
(* each stored one evaluation, for session 1 or later for session 2, with  *)
(* ratings from RatedPayloads; the last of them, on socket 2, has just     *)
(* stored its evaluation for session 2 and its handler is about to fetch   *)
(* the session's list.  The admin on socket 1 may end the presentation.    *)
(***************************************************************************)
MaxRated == 4

RatedPayloads ==
    Payloads \cup
    { [technicalContent |-> 8, presentationSkills |-> 7, projectDemo |-> 5],
      [technicalContent |-> 6, presentationSkills |-> 9, projectDemo |-> 7] }

\* k peer logins: users 2 .. k + 1, each with its peer record
RECURSIVE WithPeers(_, _)
WithPeers(st, k) ==
    IF k = 0 THEN st
    ELSE LET s == WithPeers(st, k - 1) IN
         createPeer(createUser(s, [username |-> UsnNames[k], isAdmin |-> FALSE]),
                    [usn |-> UsnNames[k], userId |-> s.currentUserId])

\* session 1 started, then session 2 started over it
WithTwoSessions(st) ==
    LET insertSession == [teamId |-> 1, startTime |-> 0, isActive |-> TRUE, createdBy |-> 1]
        first == StoreNewSession(st, insertSession)
    IN StoreNewSession(updatePresentationSession(first, 1, [isActive |-> FALSE, endTime |-> 0]),
                       insertSession)

\* the first k evaluations: peer i (user i + 1) rated session sess[i] with ratings[i]
RECURSIVE WithEvaluations(_, _, _, _)
WithEvaluations(st, k, ratings, sess) ==
    IF k = 0 THEN st
    ELSE createEvaluation(WithEvaluations(st, k - 1, ratings, sess),
                          [technicalContent |-> ratings[k].technicalContent,
                           presentationSkills |-> ratings[k].presentationSkills,
                           projectDemo |-> ratings[k].projectDemo,
                           peerId |-> k + 1, sessionId |-> sess[k], submittedAt |-> 0])

InitRated ==
    \E n \in 1..MaxRated :
      \E ratings \in [1..n -> RatedPayloads], sess \in [1..n -> {1, 2}] :
        /\ \A i \in 1..(n - 1) : sess[i] <= sess[i + 1]
        /\ sess[n] = 2
        /\ storage = WithEvaluations(
                         WithTwoSessions(createTeam(WithPeers(MemStorage, n), [createdBy |-> 1])),
                         n, ratings, sess)
        /\ clients = <<[socket |-> 1, userId |-> 1, isAdmin |-> TRUE],
                       [socket |-> 2, userId |-> n + 1, isAdmin |-> FALSE]>>
        /\ activeSession = MapGet(storage.presentationSessions, 2)
        /\ activeTeam = getTeam(storage, 1)
        /\ timerSeconds = 0
        /\ isTimerRunning = FALSE
        /\ timerInterval = Null
        /\ intervals = {}
        /\ sockets = [c \in Conns |-> IF c <= 2 THEN [readyState |-> "OPEN", listening |-> TRUE]
                                               ELSE [readyState |-> "NONE", listening |-> FALSE]]
        /\ tasks = SetToBag({[kind |-> "submit_evaluation", conn |-> 2,
                              pc |-> "createEvaluation"]})
        /\ now = 0
        /\ out = NoOut
        /\ event = Ev(2, "submit_evaluation", "getEvaluationBySessionAndPeer")

NextRated ==
    \/ \E t \in Suspended : SubmitCreated(t)
    \/ \E t \in Suspended : SubmitListed(t)
    \/ EndSteps
    \/ FeedbackSteps

SpecRated == InitRated /\ [][NextRated]_vars

\* the ratings f of a list of evaluations, as the bag of their values
RatingsOf(evals, f) == [v \in {e[f] : e \in evals} |-> Cardinality({e \in evals : e[f] = v})]

\* the list is the example of the specification: technicalContent [8, 6],
\* presentationSkills [7, 9], projectDemo [5, 7]
IsExample(evals) ==
    /\ RatingsOf(evals, "technicalContent") = (8 :> 1) @@ (6 :> 1)
    /\ RatingsOf(evals, "presentationSkills") = (7 :> 1) @@ (9 :> 1)
    /\ RatingsOf(evals, "projectDemo") = (5 :> 1) @@ (7 :> 1)

\* the number sum / count for integers when count divides sum, a whole number
IsQuotient(x, sum, count) == sum % count = 0 => x = FInt(sum \div count)

\* C19: the list a submit_evaluation handler fetches is every evaluation stored for
\* the current session and none of another session; the averages it sends are, for
\* each rating, the sum over that list divided by its length, and as overall the
\* sum of the three divided by 3; for the example they are 7, 8, 6 and 7.
C19_Averages ==
    [][/\ \A t \in Started :
             (t.kind = "submit_evaluation" /\ t.pc = "getEvaluationsBySessionId")
             => t.sessionEvaluations =
                    {e \in storage.evaluations : e.sessionId = activeSession.id}
       /\ \A t \in Suspended :
             (Resumed(t) /\ t.kind = "submit_evaluation"
                  /\ t.pc = "getEvaluationsBySessionId" /\ t.sessionEvaluations # {})
             => LET evals == t.sessionEvaluations
                    n == Cardinality(evals)
                    a == out'[1][1].averages
                    Sum(f) == SumField(evals, f)
                IN /\ out'[1][1].evaluations = evals
                   /\ a.technicalContent = FDiv(FInt(Sum("technicalContent")), n)
                   /\ a.presentationSkills = FDiv(FInt(Sum("presentationSkills")), n)
                   /\ a.projectDemo = FDiv(FInt(Sum("projectDemo")), n)
                   /\ a.overall = FDiv(FAdd(FAdd(a.technicalContent, a.presentationSkills),
                                            a.projectDemo), 3)
                   /\ IsQuotient(a.technicalContent, Sum("technicalContent"), n)
                   /\ IsQuotient(a.presentationSkills, Sum("presentationSkills"), n)
                   /\ IsQuotient(a.projectDemo, Sum("projectDemo"), n)
                   /\ IsExample(evals)
                          => a = [technicalContent |-> FInt(7), presentationSkills |-> FInt(8),
                                  projectDemo |-> FInt(6), overall |-> FInt(7)]]_vars

\* the example, with a third evaluation stored for the superseded session
C19_Witness ==
    /\ event = Ev(2, "submit_evaluation", "getEvaluationsBySessionId")
    /\ Len(out[1]) = 1 /\ out[1][1].type = "evaluation_update"
    /\ IsExample(out[1][1].evaluations)
    /\ out[1][1].averages = [technicalContent |-> FInt(7), presentationSkills |-> FInt(8),
                             projectDemo |-> FInt(6), overall |-> FInt(7)]
    /\ Cardinality(storage.evaluations) = 3
    /\ \E e \in storage.evaluations : e.sessionId = 1

\* C20: the overallScore that generateAIFeedback returns for a non-empty list, and
\* that end_presentation stores, is Math.round of ten times the mean of the three
\* rating means, the same number whether the generator call succeeded or failed;
\* for the ratings {8, 7, 9} and {6, 8, 7} it is 75.
C20_OverallScore ==
    [][\A t \in Suspended :
          (Resumed(t) /\ t.kind = "end_presentation" /\ t.pc = "generateAIFeedback")
          => \A f \in storage'.aiFeedback \ storage.aiFeedback :
                /\ f.overallScore = avgOverall(t.evaluations)
                /\ ({<<e.technicalContent, e.presentationSkills, e.projectDemo>> :
                        e \in t.evaluations} = {<<8, 7, 9>>, <<6, 8, 7>>}
                    /\ Cardinality(t.evaluations) = 2)
                       => f.overallScore = 75]_vars

(***************************************************************************)
(* Commands that cannot be handled, among those that can: from the state   *)
(* of InitConnected, sessions are started and ended and evaluations        *)
(* submitted, with a payload that passes the schema outside the rating     *)
(* scale and one that does not pass it, with messages that are not JSON,   *)
(* with start_presentation messages without a payload and with signaling   *)
(* messages.                                                               *)
(***************************************************************************)
InputPayloads ==
    { [technicalContent |-> 11, presentationSkills |-> 11, projectDemo |-> 11],
      [technicalContent |-> 8, presentationSkills |-> 7] }

NextInputs ==
    \/ StartSteps
    \/ EndSteps
    \/ FeedbackSteps
    \/ \E ws \in Conns, payload \in InputPayloads : SubmitEvaluation(ws, payload)
    \/ \E t \in Suspended : SubmitChecked(t)
    \/ \E t \in Suspended : SubmitCreated(t)
    \/ \E t \in Suspended : SubmitListed(t)
    \/ \E ws \in Conns : Unparsable(ws)
    \/ \E ws \in Conns : StartPresentationNoPayload(ws)
    \/ \E ws \in Conns, type \in SignalTypes : Signal(ws, type)

SpecInputs == InitConnected /\ [][NextInputs]_vars

\* one error message to ws and nothing to any other connection
OnlyErrorTo(ws) ==
    /\ Len(out'[ws]) = 1 /\ out'[ws][1].type = "error"
    /\ \A other \in Conns \ {ws} : out'[other] = <<>>

\* C21: a command whose handling fails gets an error message, sent to the
\* connection it came from and to no other: a message that is not JSON, a
\* start_presentation from an admin without a payload, and a submit_evaluation
\* whose payload fails schema validation.
C21_FailuresAnswered ==
    [][/\ \A ws \in Conns :
             (Receives(ws) /\ event' = Ev(ws, "message", "JSON.parse")) => OnlyErrorTo(ws)
       /\ \A ws \in Conns :
             (Receives(ws) /\ event' = Ev(ws, "start_presentation", "payload"))
                 => OnlyErrorTo(ws)
       /\ \A t \in Suspended :
             (/\ Resumed(t) /\ t.kind = "submit_evaluation"
              /\ t.pc = "getEvaluationBySessionAndPeer"
              /\ t.existingEvaluation = Null /\ activeSession # Null
              /\ ~insertEvaluationSchema(EvaluationData(t.payload, t.client)))
                 => OnlyErrorTo(t.conn)]_vars

\* C22: every stored Evaluation has its three ratings in 1..10, and every stored
\* AIFeedback has its overallScore in 0..100.
C22_RatingsInRange ==
    /\ \A e \in storage.evaluations :
          \A f \in {"technicalContent", "presentationSkills", "projectDemo"} : e[f] \in 1..10
    /\ \A fb \in storage.aiFeedback : fb.overallScore \in 0..100

\* the open connections whose role is the opposite of that of ws
OppositeRole(ws) == {c \in OpenAll \ {ws} : ClientOf(c).isAdmin # ClientOf(ws).isAdmin}

\* C23: an offer, answer or ice_candidate message received from a connection is
\* forwarded, as a message of the same type, to every other open connection of
\* the opposite role, and the step changes no session, timer or storage state.
C23_SignalingRelay ==
    [][\A ws \in Conns, type \in SignalTypes :
          (Receives(ws) /\ event' = Ev(ws, type, "entry"))
              => /\ \A c \in OppositeRole(ws) :
                       \E i \in 1..Len(out'[c]) : out'[c][i].type = type
                 /\ UNCHANGED <<storage, serverVars>>]_vars

ScreenShareTypes == {"screen_share_start", "screen_share_stop"}

\* C24: a screen_share_start or screen_share_stop from an admin is sent on, as a
\* message of the same type, to every open non-admin connection and to no admin
\* connection, the sender included, and leaves activeSession, activeTeam, the
\* timer and the record store unchanged, with or without an active session.
C24_ScreenShareRelay ==
    [][\A ws \in Conns, type \in ScreenShareTypes :
          (Receives(ws) /\ ClientOf(ws).isAdmin /\ event' = Ev(ws, type, "entry"))
              => /\ \A c \in Conns :
                       out'[c] = IF c \in OpenNonAdmins THEN <<[type |-> type]>> ELSE <<>>
                 /\ UNCHANGED <<storage, serverVars>>]_vars

\* a screen_share_stop of the admin during an active session has reached the peer
C24_Witness ==
    /\ event = Ev(1, "screen_share_stop", "entry")
    /\ activeSession # Null
    /\ out[2] = <<[type |-> "screen_share_stop"]>>
    /\ out[1] = <<>>

\* C25: no connection whose transport has closed is in the registry, at whatever
\* point of the accept sequence the close occurred; and the close of a registered,
\* identity-resolved non-admin connection starts a recomputation of the peer list
\* for the open admins.
C25_ClosedRemoved ==
    /\ [](\A ws \in Registered : sockets[ws].readyState # "CLOSED")
    /\ [][\A ws \in Conns :
             (/\ event' = Ev(ws, "close", "entry")
              /\ ws \in Registered /\ ~ClientOf(ws).isAdmin /\ ClientOf(ws).userId > 0)
                 => /\ ws \notin {clients'[i].socket : i \in 1..Len(clients')}
                    /\ \E t \in Started : t.kind = "close" /\ t.conn = ws]_vars

(***************************************************************************)
(* The steps that are no session command, during a session: the admin,     *)
(* alone connected, has started the presentation of team 1; from there     *)
(* connections are accepted and closed, the timer driven, evaluations      *)
(* submitted, snapshots requested and screen sharing announced, while time *)
(* passes, and the session is ended.                                       *)
(***************************************************************************)
InitPresenting ==
    /\ storage = StoreNewSession(
                    createTeam(
                        createPeer(createUser(MemStorage, [username |-> "usn1", isAdmin |-> FALSE]),
                                   [usn |-> "usn1", userId |-> 2]),
                        [createdBy |-> 1]),
                    [teamId |-> 1, startTime |-> 0, isActive |-> TRUE, createdBy |-> 1])
    /\ clients = <<[socket |-> 1, userId |-> 1, isAdmin |-> TRUE]>>
    /\ activeSession = NewSessionOf(storage)
    /\ activeTeam = getTeam(storage, 1)
    /\ timerSeconds = 0
    /\ isTimerRunning = FALSE
    /\ timerInterval = Null
    /\ intervals = {}
    /\ sockets = [c \in Conns |-> IF c = 1 THEN [readyState |-> "OPEN", listening |-> TRUE]
                                           ELSE [readyState |-> "NONE", listening |-> FALSE]]
    /\ tasks = EmptyBag
    /\ now = 0
    /\ out = Send(NoOut, 1, <<SessionUpdateMsg(activeSession, activeTeam),
                             TimerUpdateMsg(0, FALSE)>>)
    /\ event = Ev(1, "start_presentation", "createPresentationSession")

NextFrame ==
    \/ ClockAdvance
    \/ ConnectionSteps
    \/ TimerSteps
    \/ SubmitSteps
    \/ \E ws \in Conns : GetState(ws)
    \/ \E t \in Suspended : SendStatePeersListed(t)
    \/ \E ws \in Conns : ScreenShareStart(ws)
    \/ \E ws \in Conns : ScreenShareStop(ws)
    \/ EndSteps

SpecFrame == InitPresenting /\ [][NextFrame]_vars

\* isActive and endTime of every stored session
SessionEnds == {<<s.id, s.isActive, s.endTime>> : s \in storage.presentationSessions}

\* C26: a step that is no step of a start_presentation or end_presentation handler
\* (a timer tick, timer_start, timer_pause, timer_reset, submit_evaluation,
\* get_state, screen_share_start or screen_share_stop, a connect, a disconnect,
\* the passage of time) leaves activeSession, activeTeam and every stored
\* session's isActive and endTime unchanged.
C26_OnlyStartAndEnd ==
    [][event'.type \notin {"start_presentation", "end_presentation"}
          => UNCHANGED <<activeSession, activeTeam, SessionEnds>>]_vars

\* the admin who started the session was the last connection and has disconnected,
\* after the timer ran and time passed: the session is still active
C26_Witness ==
    /\ event = Ev(1, "close", "entry")
    /\ clients = <<>>
    /\ \A c \in Conns : ~IsOpen(c)
    /\ now = MaxClock /\ timerSeconds > 0
    /\ activeSession # Null /\ activeSession.isActive
    /\ ActiveStored = {activeSession}

\* what generateAIFeedback may return for the evaluations evals: the generator's two
\* lists with the score computed beside them, or the two fixed lists with the score
\* computed by the fallback
WellFormedFeedback(evals) ==
    { [strengths |-> Generated("strengths", evals),
       improvements |-> Generated("improvements", evals),
       overallScore |-> avgOverall(evals)],
      [strengths |-> FallbackStrengths,
       improvements |-> FallbackImprovements,
       overallScore |-> fallbackScore(evals)] }

\* C27: generateAIFeedback never raises for a non-empty evaluation list, and
\* whenever the generator call does not deliver its two lists it returns exactly
\* the fixed strengths and improvements with the locally computed overallScore:
\* each end_presentation handler resumed from the generator call, with a session
\* active, goes on to store a feedback that is the generator's or the fixed one.
C27_FallbackOnFailure ==
    [][\A t \in Suspended :
          (Resumed(t) /\ t.kind = "end_presentation" /\ t.pc = "generateAIFeedback"
               /\ t.evaluations # {} /\ activeSession # Null)
              => \E u \in Started :
                    /\ u.kind = "end_presentation" /\ u.pc = "createAIFeedback"
                    /\ u.feedback \in WellFormedFeedback(t.evaluations)]_vars

(***************************************************************************)
(* The server while a generator call is pending: the admin and a peer are  *)
(* connected, the peer has evaluated session 1, and the admin's            *)
(* end_presentation handler awaits generateAIFeedback; from there sessions *)
(* are started and ended, the timer driven, snapshots requested and        *)
(* evaluations submitted, and the generator returns at any time.           *)
(***************************************************************************)
InitGenerating ==
    /\ storage = createEvaluation(
                    StoreNewSession(
                        createTeam(
                            createPeer(createUser(MemStorage,
                                                  [username |-> "usn1", isAdmin |-> FALSE]),
                                       [usn |-> "usn1", userId |-> 2]),
                            [createdBy |-> 1]),
                        [teamId |-> 1, startTime |-> 0, isActive |-> TRUE, createdBy |-> 1]),
                    [technicalContent |-> 8, presentationSkills |-> 7, projectDemo |-> 9,
                     peerId |-> 2, sessionId |-> 1, submittedAt |-> 0])
    /\ clients = <<[socket |-> 1, userId |-> 1, isAdmin |-> TRUE],
                   [socket |-> 2, userId |-> 2, isAdmin |-> FALSE]>>
    /\ activeSession = NewSessionOf(storage)
    /\ activeTeam = getTeam(storage, 1)
    /\ timerSeconds = 0
    /\ isTimerRunning = FALSE
    /\ timerInterval = Null
    /\ intervals = {}
    /\ sockets = [c \in Conns |-> IF c <= 2 THEN [readyState |-> "OPEN", listening |-> TRUE]
                                           ELSE [readyState |-> "NONE", listening |-> FALSE]]
    /\ tasks = SetToBag({[kind |-> "end_presentation", conn |-> 1,
                          pc |-> "generateAIFeedback",
                          evaluations |-> getEvaluationsBySessionId(storage, 1),
                          team |-> activeTeam]})
    /\ now = 0
    /\ out = NoOut
    /\ event = Ev(1, "end_presentation", "getEvaluationsBySessionId")

NextGenerating ==
    \/ StartSteps
    \/ EndSteps
    \/ FeedbackSteps
    \/ TimerSteps
    \/ SubmitSteps
    \/ \E ws \in Conns : GetState(ws)
    \/ \E t \in Suspended : SendStatePeersListed(t)

SpecGenerating == InitGenerating /\ [][NextGenerating]_vars

\* an end_presentation handler awaits the generator
GeneratorPending == \E t \in BagToSet(tasks) : t.pc = "generateAIFeedback"

\* C28: while a generator call is pending, every registered open connection's
\* get_state, timer_start, timer_pause, timer_reset, start_presentation and
\* submit_evaluation is handled at once (those that await storage as soon as a
\* handler can be suspended, a start while the session bound leaves room), a
\* running timer goes on ticking, and the steps taken meanwhile leave the pending
\* call pending.
C28_Responsive ==
    /\ [](GeneratorPending =>
            /\ \A ws \in OpenAll :
                  /\ ENABLED TimerStart(ws)
                  /\ ENABLED TimerPause(ws)
                  /\ ENABLED TimerReset(ws)
                  /\ CanSuspend =>
                        /\ ENABLED GetState(ws)
                        /\ storage.currentSessionId + StartsInFlight <= MaxSessions
                              => \A teamId \in TeamIds : ENABLED StartPresentation(ws, teamId)
                        /\ \A payload \in Payloads : ENABLED SubmitEvaluation(ws, payload)
            /\ \A h \in intervals : timerSeconds < MaxSeconds => ENABLED Tick(h))
    /\ [][\A t \in Suspended :
             (t.pc = "generateAIFeedback" /\ ~Resumed(t)) => t \in BagToSet(tasks')]_vars

\* session 2 has been started and has received an evaluation while the generator
\* call of session 1 is still pending: no feedback is stored yet, and no other
\* handler is left
C28_Witness ==
    /\ \E t \in BagToSet(tasks) : t.pc = "generateAIFeedback" /\ tasks = SetToBag({t})
    /\ activeSession # Null /\ activeSession.id = 2
    /\ \E e \in storage.evaluations : e.sessionId = 2
    /\ storage.aiFeedback = {}
    /\ event = Ev(2, "submit_evaluation", "getEvaluationsBySessionId")

\* C29: every stored PresentationSession is created active with endTime null, is
\* never deleted, and changes at most once: from active to inactive with an
\* endTime; an inactive session stays inactive and keeps its endTime.
C29_MutatedOnce ==
    [][/\ \A s \in storage.presentationSessions :
             \E s2 \in storage'.presentationSessions :
                 /\ s2.id = s.id
                 /\ s2.teamId = s.teamId /\ s2.startTime = s.startTime
                 /\ s2.createdBy = s.createdBy
                 /\ IF s.isActive
                    THEN IF s2.isActive THEN s2 = s ELSE s2.endTime \in Nat
                    ELSE ~s2.isActive /\ s2.endTime = s.endTime
       /\ \A s2 \in storage'.presentationSessions :
             (\A s \in storage.presentationSessions : s.id # s2.id)
                 => s2.isActive /\ s2.endTime = Null]_vars

(***************************************************************************)
(* Every create call of the record store: from the state after             *)
(* construction, with the admin connected, peers log in, a team is         *)
(* uploaded, connections are accepted, sessions started and ended,         *)
(* evaluations submitted and feedback generated.                           *)
(***************************************************************************)
InitStore ==
    /\ storage = MemStorage
    /\ clients = <<[socket |-> 1, userId |-> 1, isAdmin |-> TRUE]>>
    /\ activeSession = Null
    /\ activeTeam = Null
    /\ timerSeconds = 0
    /\ isTimerRunning = FALSE
    /\ timerInterval = Null
    /\ intervals = {}
    /\ sockets = [c \in Conns |-> IF c = 1 THEN [readyState |-> "OPEN", listening |-> TRUE]
                                           ELSE [readyState |-> "NONE", listening |-> FALSE]]
    /\ tasks = EmptyBag
    /\ now = 0
    /\ out = NoOut
    /\ event = Ev(0, "init", "entry")

NextStore ==
    \/ \E usn \in USNs : PeerLogin(usn)
    \/ UploadTeam
    \/ \E sessionId \in Handshakes : Connect(sessionId)
    \/ \E t \in Suspended : ConnectionResolved(t)
    \/ \E t \in Suspended : ConnectionPeersListed(t)
    \/ \E t \in Suspended : SendStatePeersListed(t)
    \/ StartSteps
    \/ SubmitSteps
    \/ EndSteps
    \/ FeedbackSteps

SpecStore == InitStore /\ [][NextStore]_vars

\* the records of each entity kind with the counter its ids are taken from
Kinds(st) ==
    { <<st.users, st.currentUserId>>, <<st.teams, st.currentTeamId>>,
      <<st.presentationSessions, st.currentSessionId>>,
      <<st.evaluations, st.currentEvaluationId>>,
      <<st.aiFeedback, st.currentFeedbackId>>, <<st.peers, st.currentPeerId>> }

Ids(records) == {r.id : r \in records}

\* C30: for each entity kind the ids handed out so far are 1, 2, 3, ... up to the
\* last one, each held by one record, independently of the other kinds; the admin
\* user of the constructor has id 1; each create call hands out the next id, and
\* no record of any kind is ever removed.
C30_Identifiers ==
    /\ [](/\ \A k \in Kinds(storage) :
                /\ Ids(k[1]) = 1..(k[2] - 1)
                /\ Cardinality(k[1]) = k[2] - 1
          /\ [id |-> 1, username |-> "admin", isAdmin |-> TRUE] \in storage.users)
    /\ [][/\ \A f \in {"users", "teams", "presentationSessions", "evaluations",
                       "aiFeedback", "peers"} :
                Ids(storage[f]) \subseteq Ids(storage'[f])
          /\ storage'.currentUserId >= storage.currentUserId
          /\ storage'.currentTeamId >= storage.currentTeamId
          /\ storage'.currentSessionId >= storage.currentSessionId
          /\ storage'.currentEvaluationId >= storage.currentEvaluationId
          /\ storage'.currentFeedbackId >= storage.currentFeedbackId
          /\ storage'.currentPeerId >= storage.currentPeerId]_vars

\* records of every kind have been created, two of them sessions and two users
C30_Witness ==
    /\ Ids(storage.users) = {1, 2} /\ Ids(storage.peers) = {1}
    /\ Ids(storage.teams) = {1}
    /\ Ids(storage.presentationSessions) = {1, 2}
    /\ Ids(storage.evaluations) = {1, 2}
    /\ Ids(storage.aiFeedback) = {1, 2}

(***************************************************************************)
(* updatePresentationSession by itself: a store holding up to MaxSessions  *)
(* sessions, each active or ended, and one pending call with an id that is *)
(* in the store or not and a set of updates; the one step is the call.     *)
(***************************************************************************)
SessionUpdates ==
    { [isActive |-> FALSE, endTime |-> MaxClock],
      [isActive |-> FALSE],
      [endTime |-> MaxClock],
      [isActive |-> TRUE] }

RECURSIVE WithSessions(_, _, _, _)
WithSessions(st, k, ended, at) ==
    IF k = 0 THEN st
    ELSE LET prior == WithSessions(st, k - 1, ended, at)
             made == StoreNewSession(prior, [teamId |-> 1, startTime |-> 0,
                                             isActive |-> TRUE, createdBy |-> 1])
         IN IF ended[k]
            THEN updatePresentationSession(made, k, [isActive |-> FALSE, endTime |-> at[k]])
            ELSE made

InitUpdate ==
    \E n \in 0..MaxSessions :
      \E ended \in [1..n -> BOOLEAN], at \in [1..n -> 0..MaxClock],
         id \in 1..(MaxSessions + 1), updates \in SessionUpdates :
        /\ \A i \in 1..n : ~ended[i] => at[i] = 0
        /\ storage = WithSessions(createTeam(MemStorage, [createdBy |-> 1]), n, ended, at)
        /\ clients = <<>>
        /\ activeSession = Null
        /\ activeTeam = Null
        /\ timerSeconds = 0
        /\ isTimerRunning = FALSE
        /\ timerInterval = Null
        /\ intervals = {}
        /\ sockets = [c \in Conns |-> [readyState |-> "NONE", listening |-> FALSE]]
        /\ tasks = SetToBag({[kind |-> "updatePresentationSession", conn |-> 0,
                              pc |-> "call", id |-> id, updates |-> updates]})
        /\ now = MaxClock
        /\ out = NoOut
        /\ event = Ev(0, "init", "entry")

\* the pending call is made: it throws or it returns
UpdateCalled(t) ==
    LET call == updatePresentationSessionCall(storage, t.id, t.updates) IN
    /\ t.kind = "updatePresentationSession" /\ t.pc = "call"
    /\ storage' = call.store
    /\ tasks' = AddTask(RemoveTask(tasks, t),
                        [kind |-> "updatePresentationSession", conn |-> 0,
                         pc |-> IF call.threw THEN "threw" ELSE "returned",
                         id |-> t.id, updates |-> t.updates, returned |-> call.returned])
    /\ out' = NoOut
    /\ event' = Ev(0, "updatePresentationSession", t.pc)
    /\ UNCHANGED <<clients, serverVars, sockets, now>>

NextUpdate == \E t \in Suspended : UpdateCalled(t)

SpecUpdate == InitUpdate /\ [][NextUpdate]_vars

\* C31: updatePresentationSession with an id that is not in the store throws and
\* leaves the store as it was; with a known id it returns, and stores under that
\* id, the record with exactly the given fields replaced and every other field
\* (id, teamId and startTime among them) as before, and no other record changes.
C31_UpdateSession ==
    [][\A t \in Suspended :
          (Resumed(t) /\ t.kind = "updatePresentationSession" /\ t.pc = "call")
              => \E u \in Started :
                    IF \A s \in storage.presentationSessions : s.id # t.id
                    THEN u.pc = "threw" /\ storage' = storage
                    ELSE LET s == CHOOSE s \in storage.presentationSessions : s.id = t.id IN
                         /\ u.pc = "returned"
                         /\ DOMAIN u.returned = DOMAIN s
                         /\ \A f \in DOMAIN s :
                               u.returned[f] = IF f \in DOMAIN t.updates THEN t.updates[f]
                                               ELSE s[f]
                         /\ u.returned.id = s.id /\ u.returned.teamId = s.teamId
                         /\ u.returned.startTime = s.startTime
                         /\ storage'.presentationSessions =
                                (storage.presentationSessions \ {s}) \cup {u.returned}
                         /\ [storage' EXCEPT !.presentationSessions = {}]
                                = [storage EXCEPT !.presentationSessions = {}]]_vars

\* the call has thrown on an id the store of two sessions does not hold
C31_Witness ==
    /\ event = Ev(0, "updatePresentationSession", "call")
    /\ \E t \in Suspended : t.pc = "threw" /\ t.id = MaxSessions + 1
    /\ Cardinality(storage.presentationSessions) = MaxSessions

(***************************************************************************)
(* One end_presentation and what overtakes it: the admin and a peer are    *)
(* connected, session 1 is active, with or without the peer's evaluation,  *)
(* and the admin's end_presentation has just been accepted and awaits the  *)
(* evaluation fetch.  No other end_presentation is sent; sessions are      *)
(* started and evaluations submitted while this one runs to completion.    *)
(***************************************************************************)
InitEnding ==
    \E evaluated \in BOOLEAN :
        LET started == StoreNewSession(
                           createTeam(
                               createPeer(createUser(MemStorage,
                                                     [username |-> "usn1", isAdmin |-> FALSE]),
                                          [usn |-> "usn1", userId |-> 2]),
                               [createdBy |-> 1]),
                           [teamId |-> 1, startTime |-> 0, isActive |-> TRUE, createdBy |-> 1])
        IN
        /\ storage = IF evaluated
                     THEN createEvaluation(started,
                              [technicalContent |-> 8, presentationSkills |-> 7,
                               projectDemo |-> 9, peerId |-> 2, sessionId |-> 1,
                               submittedAt |-> 0])
                     ELSE started
        /\ clients = <<[socket |-> 1, userId |-> 1, isAdmin |-> TRUE],
                       [socket |-> 2, userId |-> 2, isAdmin |-> FALSE]>>
        /\ activeSession = NewSessionOf(started)
        /\ activeTeam = getTeam(storage, 1)
        /\ timerSeconds = 0
        /\ isTimerRunning = FALSE
        /\ timerInterval = Null
        /\ intervals = {}
        /\ sockets = [c \in Conns |-> IF c <= 2 THEN [readyState |-> "OPEN", listening |-> TRUE]
                                               ELSE [readyState |-> "NONE", listening |-> FALSE]]
        /\ tasks = SetToBag({[kind |-> "end_presentation", conn |-> 1,
                              pc |-> "getEvaluationsBySessionId",
                              evaluations |-> getEvaluationsBySessionId(storage, 1)]})
        /\ now = 0
        /\ out = NoOut
        /\ event = Ev(1, "end_presentation", "entry")

NextEnding ==
    \/ \E t \in Suspended : EndEvaluationsFetched(t)
    \/ FeedbackSteps
    \/ \E t \in Suspended : EndSessionUpdated(t)
    \/ StartSteps
    \/ SubmitSteps

SpecEnding == InitEnding /\ [][NextEnding]_vars

SessionEndTo(c) == \E i \in 1..Len(out'[c]) : out'[c][i].type = "session_end"

\* C32: the end_presentation accepted for session 1 deactivates session 1 only: a
\* session started while it was suspended stays active in the record store and
\* stays the server's activeSession, and no session_end is broadcast for it.
C32_EndsItsOwnSession ==
    /\ [](\A s \in storage.presentationSessions : s.id # 1 => s.isActive)
    /\ [][(activeSession # Null /\ activeSession.id # 1)
             => /\ activeSession' = activeSession
                /\ \A c \in Conns : ~SessionEndTo(c)]_vars

\* C33: once end_presentation has been accepted for session 1, no further
\* Evaluation is stored for session 1, so that the list fetched for the feedback
\* generator holds every Evaluation of the session.
C33_NoEvaluationAfterEnd ==
    [][\A e \in storage'.evaluations \ storage.evaluations : e.sessionId # 1]_vars

\* C34: every session_end broadcast ends a session that is the server's active
\* session until then, so that a session ended once is not ended again: the second
\* of two end_presentation commands for the same session broadcasts no session_end.
C34_OneSessionEnd ==
    [][(\E c \in Conns : SessionEndTo(c)) => activeSession # Null]_vars

\* C35: whenever no handler is suspended, the server's activeSession and the record
\* store agree: with an activeSession, the stored session of that id is active with
\* endTime null and is the only active stored session; without one, no stored
\* session is active.
C35_MemoryAgreesWithStore ==
    tasks = EmptyBag =>
        IF activeSession # Null
        THEN \E s \in storage.presentationSessions :
                /\ s.id = activeSession.id
                /\ s.isActive /\ s.endTime = Null
                /\ ActiveStored = {s}
        ELSE ActiveStored = {}

(***************************************************************************)
(* Sessions of different teams: two teams are uploaded, the admin and a    *)
(* peer are connected; sessions are started for either team and ended,     *)
(* and snapshots are requested.                                            *)
(***************************************************************************)
InitTwoTeams ==
    /\ storage = createTeam(
                    createTeam(
                        createPeer(createUser(MemStorage, [username |-> "usn1", isAdmin |-> FALSE]),
                                   [usn |-> "usn1", userId |-> 2]),
                        [createdBy |-> 1]),
                    [createdBy |-> 1])
    /\ clients = <<[socket |-> 1, userId |-> 1, isAdmin |-> TRUE],
                   [socket |-> 2, userId |-> 2, isAdmin |-> FALSE]>>
    /\ activeSession = Null
    /\ activeTeam = Null
    /\ timerSeconds = 0
    /\ isTimerRunning = FALSE
    /\ timerInterval = Null
    /\ intervals = {}
    /\ sockets = [c \in Conns |-> IF c <= 2 THEN [readyState |-> "OPEN", listening |-> TRUE]
                                           ELSE [readyState |-> "NONE", listening |-> FALSE]]
    /\ tasks = EmptyBag
    /\ now = 0
    /\ out = NoOut
    /\ event = Ev(0, "init", "entry")

NextTeams ==
    \/ StartSteps
    \/ EndSteps
    \/ \E ws \in Conns : GetState(ws)
    \/ \E t \in Suspended : SendStatePeersListed(t)

SpecTeams == InitTwoTeams /\ [][NextTeams]_vars

\* C36: activeSession is present exactly when activeTeam is, activeTeam is then the
\* team activeSession names in teamId, and the session and the team of every
\* session_update message are related in the same way.
C36_SessionAndTeam ==
    /\ activeSession = Null <=> activeTeam = Null
    /\ activeSession # Null => activeTeam.id = activeSession.teamId
    /\ \A c \in Conns : \A i \in 1..Len(out[c]) :
          out[c][i].type = "session_update"
              => out[c][i].team.id = out[c][i].session.teamId

\* a session of team 2 is active after one of team 1, and the peer has been sent
\* the snapshot
C36_Witness ==
    /\ event = Ev(2, "get_state", "entry")
    /\ activeSession # Null /\ activeSession.teamId = 2 /\ activeTeam.id = 2
    /\ \E s \in storage.presentationSessions : s.teamId = 1
    /\ Len(out[2]) = 2 /\ out[2][1].type = "session_update"

\* C37: the running flag is set exactly when a tick stream exists, and only while a
\* session is active; the counter is never negative and changes only by one, on a
\* tick, or to 0, on timer_reset and start_presentation; a timer_start from an
\* admin without an active session gets an error and starts no tick stream.
C37_TimerInvariants ==
    /\ [](/\ isTimerRunning <=> timerInterval # Null
          /\ intervals = (IF timerInterval # Null THEN {timerInterval} ELSE {})
          /\ isTimerRunning => activeSession # Null
          /\ timerSeconds >= 0)
    /\ [][/\ \/ timerSeconds' = timerSeconds
             \/ timerSeconds' = timerSeconds + 1 /\ event'.type = "tick"
             \/ timerSeconds' = 0 /\ event'.type \in {"timer_reset", "start_presentation"}
          /\ \A ws \in Conns :
                (Entered(ws, "timer_start") /\ ClientOf(ws).isAdmin /\ activeSession = Null)
                    => /\ Rejected(ws, "No active presentation")
                       /\ UNCHANGED serverVars]_vars

\* an admin's timer_start after the session has ended, the counter still showing
\* the ticks of that session, has been refused
C37_Witness ==
    /\ event = Ev(1, "timer_start", "entry")
    /\ activeSession = Null
    /\ timerSeconds > 0 /\ ~isTimerRunning /\ intervals = {}
    /\ out[1] = <<ErrorMsg("No active presentation")>>

(***************************************************************************)
(* Submissions that name their own identity, session and time: from the    *)
(* state of InitConnected, sessions are started, time passes, and the peer *)
(* submits payloads carrying the admin's user id as peerId, the id of a    *)
(* session as sessionId and a time the server clock never shows.           *)
(***************************************************************************)
ForgedPayloads ==
    { [technicalContent |-> 8, presentationSkills |-> 7, projectDemo |-> 9,
       peerId |-> 1, sessionId |-> s, submittedAt |-> MaxClock + 1] : s \in 1..MaxSessions }

NextForged ==
    \/ ClockAdvance
    \/ StartSteps
    \/ \E ws \in Conns, payload \in ForgedPayloads : SubmitEvaluation(ws, payload)
    \/ \E t \in Suspended : SubmitChecked(t)
    \/ \E t \in Suspended : SubmitCreated(t)
    \/ \E t \in Suspended : SubmitListed(t)

SpecForged == InitConnected /\ [][NextForged]_vars

\* C38: every Evaluation a submit_evaluation handler stores carries the userId its
\* connection is registered with, the id of the session active when it is stored
\* and the server's time, whatever peerId, sessionId and submittedAt the payload
\* names; the ratings are the payload's.
C38_ServerSetsIdentity ==
    [][\A t \in Suspended :
          (Resumed(t) /\ t.kind = "submit_evaluation"
               /\ t.pc = "getEvaluationBySessionAndPeer")
              => \A e \in storage'.evaluations \ storage.evaluations :
                    /\ e.peerId = ClientOf(t.conn).userId
                    /\ e.peerId = t.client.userId
                    /\ e.sessionId = activeSession.id
                    /\ e.submittedAt = now
                    /\ e.technicalContent = t.payload.technicalContent
                    /\ e.presentationSkills = t.payload.presentationSkills
                    /\ e.projectDemo = t.payload.projectDemo]_vars

\* the peer's evaluation of session 2 has been stored under the peer's own id, for
\* session 2 and at the server's time, from a payload that names the admin
C38_Witness ==
    /\ event = Ev(2, "submit_evaluation", "getEvaluationBySessionAndPeer")
    /\ now = MaxClock
    /\ activeSession # Null /\ activeSession.id = 2
    /\ \E e \in storage.evaluations :
          e.sessionId = 2 /\ e.peerId = 2 /\ e.submittedAt = MaxClock
    /\ \A e \in storage.evaluations : e.peerId = 2

\* the last message of one of the types among msgs, Null when there is none
LastOfTypes(msgs, types) ==
    LET at == {i \in 1..Len(msgs) : msgs[i].type \in types} IN
    IF at = {} THEN Null ELSE msgs[CHOOSE i \in at : \A j \in at : j <= i]

\* C39: when no handler is suspended, what the last step delivered to an open
\* registered connection as its latest session message (session_update or
\* session_end) and as its latest timer_update is the server's state: the session
\* shown is activeSession, or none, and the counter and running flag shown are
\* timerSeconds and isTimerRunning.
C39_ViewsAgree ==
    tasks = EmptyBag =>
        \A c \in OpenAll :
            LET session == LastOfTypes(out[c], {"session_update", "session_end"})
                timer == LastOfTypes(out[c], {"timer_update"})
            IN /\ session # Null =>
                      IF session.type = "session_end" THEN activeSession = Null
                      ELSE session.session = activeSession
               /\ timer # Null => timer = TimerUpdateMsg(timerSeconds, isTimerRunning)

(***************************************************************************)
(* Clients and server together: from the state of InitAdminConnected,      *)
(* connections are accepted and closed, sessions started, the timer        *)
(* started and ticking, snapshots requested, and each admin client reacts  *)
(* to the session_update messages it is delivered.  No user presses the    *)
(* reset button: every timer_reset here comes from handleSessionUpdate.    *)
(***************************************************************************)
NextClient ==
    \/ ConnectionSteps
    \/ \E ws \in Conns : GetState(ws)
    \/ \E t \in Suspended : SendStatePeersListed(t)
    \/ StartSteps
    \/ \E ws \in Conns : TimerStart(ws)
    \/ \E h \in intervals : Tick(h)
    \/ \E ws \in Conns : ClientSessionUpdate(ws)

SpecClient == InitAdminConnected /\ [][NextClient]_vars

\* the last step was a snapshot (at accept or on get_state) that delivered a
\* session_update to the admin connection ws
SnapshotDelivered(ws) ==
    /\ event.conn = ws /\ event.type \in {"connection", "get_state"}
    /\ ClientOf(ws) # Null /\ ClientOf(ws).isAdmin
    /\ \E i \in 1..Len(out[ws]) : out[ws][i].type = "session_update"

\* C40: an admin client that is delivered the snapshot of an active session whose
\* timer shows a non-zero counter sends no timer_reset, so that the shared counter
\* and running flag are not changed by the client's reaction to the snapshot.
C40_ReconnectKeepsTimer ==
    [][\A ws \in Conns :
          (SnapshotDelivered(ws) /\ timerSeconds > 0 /\ event'.conn = ws)
              => /\ event'.type # "timer_reset"
                 /\ UNCHANGED <<timerSeconds, isTimerRunning>>]_vars

====
